---- MODULE Spec2Model ----
(***************************************************************************)
(* License Manager (backend/app.py): the access-control core.              *)
(*                                                                         *)
(* State: the auth_users and audit_log tables of the SQLite database, the  *)
(* Flask session of every client (a signed cookie: the dictionary the      *)
(* handlers read and write as `session`), and the position of every        *)
(* request that is being handled.  A handler is split at its database      *)
(* accesses: every SELECT and every write transaction is one step, so      *)
(* that requests of different clients interleave the way the threaded      *)
(* server lets them.                                                       *)
(***************************************************************************)
EXTENDS Integers, Sequences, FiniteSets, TLC

VARIABLES auth_users, nextId, db_txn, audit_log, audit_up, session, req,
          users, license_types, licenses, sqlite_sequence

(* The tables init_db.py creates, and the AUTOINCREMENT counters of their ids. *)
business_tables == <<users, license_types, licenses, sqlite_sequence>>

vars == <<auth_users, nextId, db_txn, audit_log, audit_up, session, req, business_tables>>

(***************************************************************************)
(* Bounds and domains                                                      *)
(***************************************************************************)
MaxId == 3

MaxAudit == 4

(* The most ids the users, license_types and licenses tables each hand out. *)
MaxRows == 2

(* The page of GET /audit/logs: LIMIT 100 in the source, scaled down so that *)
(* a log of MaxAudit entries is longer than one page.                        *)
AuditLogLimit == 2

Clients == {"c1", "c2"}

Usernames == {"admin", "bob", "carol"}

Passwords == {"admin123", "pw1"}

(* The password a new account is created with. *)
CreatePasswords == {"pw1"}

Roles == {"owner", "admin", "viewer"}

Ids == 1..MaxId

RowIds == 1..MaxRows

Emails == {"john.doe@company.com", "alice@company.com"}

(* The names of license types; "" is a name that is not given. *)
LicenseTypeNames == {"", "ChatGPT", "Slack"}

(* The software names of licenses; "" is a name that is not given. *)
SoftwareNames == {"", "Test Software With Icon"}

(* A column or field that may be NULL / None: no value, or one. *)
NULL == {}

Some(value) == {value}

(***************************************************************************)
(* werkzeug.security                                                       *)
(***************************************************************************)
generate_password_hash(password) == [method |-> "pbkdf2", secret |-> password]

check_password_hash(pwhash, password) == pwhash.method = "pbkdf2" /\ pwhash.secret = password

(***************************************************************************)
(* Tables                                                                  *)
(***************************************************************************)
Row(username, password_hash, role) ==
    [username |-> username, password_hash |-> password_hash, role |-> role]

SelectByUsername(table, username) == {i \in DOMAIN table : table[i].username = username}

IdOf(table, username) == CHOOSE i \in SelectByUsername(table, username) : TRUE

Owners(table) == {i \in DOMAIN table : table[i].role = "owner"}

AuditEntry(timestamp, action_type, performed_by, target, details) ==
    [timestamp |-> timestamp, action_type |-> action_type, performed_by |-> performed_by,
     target |-> target, details |-> details]

NoDetails == [k \in {} |-> ""]

(* The details column: text.  json.dumps writes a JSON document, from which *)
(* json.loads gives the value back; on any other text json.loads raises.    *)
json_dumps(value) == [encoding |-> "json", value |-> value]

PlainText(text) == [encoding |-> "text", value |-> text]

json_loads_raises(column) == column.encoding # "json"

json_loads(column) == column.value

EmptySession == [k \in {} |-> ""]

NoBody == [k \in {} |-> ""]

NoTxn == [by |-> "none"]

(***************************************************************************)
(* Responses: the status and the "error" of the JSON body.  The message of *)
(* role_required lists the roles the endpoint asks for, in their order.    *)
(***************************************************************************)
Result(status, text) == [status |-> status, error |-> [text |-> text, roles |-> <<>>]]

Pass == Result(0, "")

AccessDenied(roles_list) ==
    [status |-> 403, error |-> [text |-> "Access denied. Required roles: ", roles |-> roles_list]]

(***************************************************************************)
(* Requests.  req[c] is Idle, or the request client c has sent: its        *)
(* endpoint (op), what the handler has taken from the body and read from   *)
(* the database so far (args), the handler's position (pc) and, once       *)
(* answered (pc = "done"), the HTTP status and error message.              *)
(***************************************************************************)
Request(op, pc, args, result) ==
    [op |-> op, pc |-> pc, args |-> args, status |-> result.status, error |-> result.error]

Idle == Request("idle", "idle", NoBody, Pass)

Respond(c, op, args, result) == req' = [req EXCEPT ![c] = Request(op, "done", args, result)]

Goto(c, op, pc, args) == req' = [req EXCEPT ![c] = Request(op, pc, args, Pass)]

At(c, op, pc) == req[c].pc = pc /\ req[c].op = op

(* SQLite lets one connection write at a time: a write waits while another *)
(* connection's transaction is open.                                       *)
CanWrite(c) == db_txn.by \in {"none", c}

(***************************************************************************)
(* init_auth_tables: a fresh database gets the owner "admin"/"admin123"    *)
(* and one audit entry.                                                    *)
(***************************************************************************)
init_auth_tables ==
    /\ auth_users = (1 :> Row("admin", generate_password_hash("admin123"), "owner"))
    /\ nextId = 2
    /\ audit_log = <<AuditEntry(0, "create_owner", "system", "admin",
                                PlainText("Initial owner account created"))>>

(* init_db.py: the users and licenses tables are empty; license_types gets *)
(* its default rows (eight in the source, the first one here).             *)
init_db ==
    /\ users = <<>>
    /\ license_types = (1 :> [name |-> "ChatGPT", icon_filename |-> Some("chatgpt.png")])
    /\ licenses = <<>>
    /\ sqlite_sequence = [users |-> 0, license_types |-> 1, licenses |-> 0]

(* audit_up tells whether the INSERT of log_audit_event succeeds.  In Spec *)
(* and SpecSeq the audit store is down: every log_audit_event takes its    *)
(* except path, which leaves the request's outcome as it is.               *)
Init ==
    /\ init_auth_tables
    /\ init_db
    /\ db_txn = NoTxn
    /\ audit_up = FALSE
    /\ session = [c \in Clients |-> EmptySession]
    /\ req = [c \in Clients |-> Idle]

(***************************************************************************)
(* log_audit_event: one INSERT on a connection of its own; an exception    *)
(* (the audit store is down or full) is swallowed.                         *)
(***************************************************************************)
(* CURRENT_TIMESTAMP has a resolution of one second: since the last INSERT *)
(* the clock has either stayed within the same second or moved on.         *)
CURRENT_TIMESTAMP ==
    {audit_log[Len(audit_log)].timestamp, audit_log[Len(audit_log)].timestamp + 1}

(* log_audit_event writing over the latest entry instead of adding one. *)
log_audit_event_overwriting(action_type, performed_by, target, details) ==
    IF audit_up
    THEN audit_log' = [audit_log EXCEPT ![Len(audit_log)] =
             AuditEntry(audit_log[Len(audit_log)].timestamp, action_type, performed_by, target,
                        IF DOMAIN details = {} THEN NoDetails ELSE json_dumps(details))]
    ELSE audit_log' = audit_log

(* log_audit_event recording "system" instead of the caller. *)
log_audit_event_by_system(action_type, performed_by, target, details) ==
    IF audit_up
    THEN /\ Len(audit_log) < MaxAudit
         /\ \E timestamp \in CURRENT_TIMESTAMP :
               audit_log' = Append(audit_log,
                   AuditEntry(timestamp, action_type, "system", target,
                              IF DOMAIN details = {} THEN NoDetails ELSE json_dumps(details)))
    ELSE audit_log' = audit_log

log_audit_event(action_type, performed_by, target, details) ==
    IF audit_up
    THEN /\ Len(audit_log) < MaxAudit
         /\ \E timestamp \in CURRENT_TIMESTAMP :
               audit_log' = Append(audit_log,
                   AuditEntry(timestamp, action_type, performed_by, target,
                              IF DOMAIN details = {} THEN NoDetails ELSE json_dumps(details)))
    ELSE audit_log' = audit_log

(***************************************************************************)
(* The decorators.  login_required looks at the session only;              *)
(* role_required reads the caller's role from auth_users by the session's  *)
(* username.  The result is what the decorator answers with, or Pass when  *)
(* the handler runs.                                                       *)
(***************************************************************************)
(* login_required answering a client without a session as one whose role *)
(* is not allowed.                                                       *)
login_required_forbidding(c) ==
    IF "username" \notin DOMAIN session[c]
    THEN AccessDenied(<<>>)
    ELSE Pass

login_required(c) ==
    IF "username" \notin DOMAIN session[c]
    THEN Result(401, "Authentication required")
    ELSE Pass

(* role_required letting every viewer in. *)
role_required_viewer_admitted(c, allowed_roles) ==
    IF "username" \notin DOMAIN session[c] THEN Result(401, "Authentication required")
    ELSE IF SelectByUsername(auth_users, session[c].username) = {}
    THEN Result(401, "User not found")
    ELSE IF /\ auth_users[IdOf(auth_users, session[c].username)].role # "viewer"
            /\ \A i \in DOMAIN allowed_roles :
                  allowed_roles[i] # auth_users[IdOf(auth_users, session[c].username)].role
    THEN AccessDenied(allowed_roles)
    ELSE Pass

(* role_required without the comparison of the caller's role. *)
role_required_any_role(c, allowed_roles) ==
    IF "username" \notin DOMAIN session[c] THEN Result(401, "Authentication required")
    ELSE IF SelectByUsername(auth_users, session[c].username) = {}
    THEN Result(401, "User not found")
    ELSE Pass

role_required(c, allowed_roles) ==
    IF "username" \notin DOMAIN session[c] THEN Result(401, "Authentication required")
    ELSE IF SelectByUsername(auth_users, session[c].username) = {}
    THEN Result(401, "User not found")
    ELSE IF \A i \in DOMAIN allowed_roles :
                allowed_roles[i] # auth_users[IdOf(auth_users, session[c].username)].role
    THEN AccessDenied(allowed_roles)
    ELSE Pass

(* role_required clears the session when the caller's row is gone. *)
SessionAfterDecorators(c) ==
    IF /\ "username" \in DOMAIN session[c]
       /\ SelectByUsername(auth_users, session[c].username) = {}
    THEN [session EXCEPT ![c] = EmptySession]
    ELSE session

(* The decorators writing an audit entry for each request they refuse. *)
DeniedAndLogged(c, op, args, allowed_roles) ==
    /\ login_required(c) # Pass \/ role_required(c, allowed_roles) # Pass
    /\ Respond(c, op, args,
               IF login_required(c) # Pass THEN login_required(c)
               ELSE role_required(c, allowed_roles))
    /\ session' = SessionAfterDecorators(c)
    /\ log_audit_event("access_denied", "anonymous", op, NoDetails)
    /\ UNCHANGED <<auth_users, nextId, db_txn, audit_up, business_tables>>

(* A request to a role-protected endpoint that the decorators answer. *)
Denied(c, op, args, allowed_roles) ==
    /\ login_required(c) # Pass \/ role_required(c, allowed_roles) # Pass
    /\ Respond(c, op, args,
               IF login_required(c) # Pass THEN login_required(c)
               ELSE role_required(c, allowed_roles))
    /\ session' = SessionAfterDecorators(c)
    /\ UNCHANGED <<auth_users, nextId, db_txn, audit_log, audit_up, business_tables>>

Admitted(c, allowed_roles) ==
    login_required(c) = Pass /\ role_required(c, allowed_roles) = Pass

(* The roles the route decorators name, as role_required normalises them: *)
(* a list, a single role name being a list of one.                        *)
AllowedRoles ==
    [get_admins |-> <<"owner">>, create_admin |-> <<"owner">>, delete_admin |-> <<"owner">>,
     transfer_ownership |-> <<"owner">>, reset_password |-> <<"admin", "owner">>,
     change_own_password |-> <<"admin", "owner">>, get_audit_logs |-> <<"owner">>,
     get_license_types |-> <<"admin", "owner", "viewer">>,
     create_license_type |-> <<"admin", "owner">>,
     delete_license_type |-> <<"admin", "owner">>,
     get_users |-> <<"admin", "owner", "viewer">>,
     get_user |-> <<"admin", "owner", "viewer">>,
     create_user |-> <<"admin", "owner">>, update_user |-> <<"admin", "owner">>,
     delete_user |-> <<"admin", "owner">>, get_licenses |-> <<"admin", "owner", "viewer">>,
     assign_license |-> <<"admin", "owner">>, revoke_license |-> <<"admin", "owner">>]

(* The client reads the response; the connection is free for its next request. *)
Receive(c) ==
    /\ req[c].pc = "done"
    /\ req' = [req EXCEPT ![c] = Idle]
    /\ UNCHANGED <<auth_users, nextId, db_txn, audit_log, audit_up, business_tables, session>>

(***************************************************************************)
(* POST /login                                                             *)
(***************************************************************************)
LoginBodies == {NoBody} \cup [username : Usernames, password : Passwords]

(* login telling a missing account from a wrong password. *)
login_checks_revealing(table, data) ==
    IF "username" \notin DOMAIN data \/ "password" \notin DOMAIN data
    THEN Result(400, "Username and password required")
    ELSE IF SelectByUsername(table, data.username) = {}
    THEN Result(401, "User not found")
    ELSE IF ~check_password_hash(table[IdOf(table, data.username)].password_hash,
                                 data.password)
    THEN Result(401, "Invalid username or password")
    ELSE Pass

login_checks(table, data) ==
    IF "username" \notin DOMAIN data \/ "password" \notin DOMAIN data
    THEN Result(400, "Username and password required")
    ELSE IF \/ SelectByUsername(table, data.username) = {}
            \/ ~check_password_hash(table[IdOf(table, data.username)].password_hash,
                                    data.password)
    THEN Result(401, "Invalid username or password")
    ELSE Pass

login(c) ==
    /\ req[c].pc = "idle"
    /\ \E data \in LoginBodies :
        IF login_checks(auth_users, data) # Pass
        THEN /\ Respond(c, "login", data, login_checks(auth_users, data))
             /\ UNCHANGED <<auth_users, nextId, db_txn, audit_log, audit_up, business_tables, session>>
        ELSE LET id == IdOf(auth_users, data.username) IN
             /\ session' = [session EXCEPT ![c] =
                    [user_id |-> id, username |-> auth_users[id].username,
                     role |-> auth_users[id].role]]
             /\ Goto(c, "login", "log", data)
             /\ UNCHANGED <<auth_users, nextId, db_txn, audit_log, audit_up, business_tables>>

login_log(c) ==
    /\ At(c, "login", "log")
    /\ CanWrite(c)
    /\ log_audit_event("login", req[c].args.username, "", NoDetails)
    /\ Respond(c, "login", req[c].args, Result(200, ""))
    /\ UNCHANGED <<auth_users, nextId, db_txn, audit_up, business_tables, session>>

(***************************************************************************)
(* POST /logout                                                            *)
(***************************************************************************)
(* logout writing its audit entry whether or not the client holds a session. *)
logout_always_logged(c) ==
    /\ req[c].pc = "idle"
    /\ CanWrite(c)
    /\ log_audit_event("logout",
                       IF "username" \in DOMAIN session[c] THEN session[c].username ELSE "",
                       "", NoDetails)
    /\ session' = [session EXCEPT ![c] = EmptySession]
    /\ Respond(c, "logout", NoBody, Result(200, ""))
    /\ UNCHANGED <<auth_users, nextId, db_txn, audit_up, business_tables>>

logout(c) ==
    /\ req[c].pc = "idle"
    /\ IF "username" \in DOMAIN session[c]
       THEN CanWrite(c) /\ log_audit_event("logout", session[c].username, "", NoDetails)
       ELSE audit_log' = audit_log
    /\ session' = [session EXCEPT ![c] = EmptySession]
    /\ Respond(c, "logout", NoBody, Result(200, ""))
    /\ UNCHANGED <<auth_users, nextId, db_txn, audit_up, business_tables>>

(***************************************************************************)
(* GET /auth/me: login_required only                                       *)
(***************************************************************************)
get_current_user(c) ==
    /\ req[c].pc = "idle"
    /\ IF login_required(c) # Pass
       THEN Respond(c, "get_current_user", NoBody, login_required(c))
       ELSE Respond(c, "get_current_user",
                    [username |-> session[c].username, role |-> session[c].role],
                    Result(200, ""))
    /\ UNCHANGED <<auth_users, nextId, db_txn, audit_log, audit_up, business_tables, session>>

(***************************************************************************)
(* GET /auth/admins (owner only)                                           *)
(***************************************************************************)
get_admins(c) ==
    /\ req[c].pc = "idle"
    /\ \/ Denied(c, "get_admins", NoBody, AllowedRoles.get_admins)
       \/ /\ Admitted(c, AllowedRoles.get_admins)
          /\ Goto(c, "get_admins", "select", NoBody)
          /\ UNCHANGED <<auth_users, nextId, db_txn, audit_log, audit_up, business_tables, session>>

get_admins_select(c) ==
    /\ At(c, "get_admins", "select")
    /\ Respond(c, "get_admins",
               [admins |-> {i \in DOMAIN auth_users : auth_users[i].role \in {"admin", "owner"}}],
               Result(200, ""))
    /\ UNCHANGED <<auth_users, nextId, db_txn, audit_log, audit_up, business_tables, session>>

(***************************************************************************)
(* POST /auth/admins (owner only)                                          *)
(***************************************************************************)
(* The role values a creation request carries: the three roles, and a *)
(* value that is no role.                                             *)
CreateRoles == Roles \cup {"superuser"}

CreateBodies == {NoBody} \cup [username : Usernames, role : CreateRoles]

(* AUTOINCREMENT ids are never reused; the model stops creating at MaxId. *)
Creating == {c \in Clients : req[c].op = "create_admin" /\ req[c].pc \in {"check", "insert"}}

(* create_admin's body checks without the check of the role. *)
create_admin_validate_any_role(data) ==
    IF "username" \notin DOMAIN data \/ "role" \notin DOMAIN data
    THEN Result(400, "Username, password, and role required")
    ELSE Pass

(* The body checks, before the handler opens its connection. *)
create_admin_validate(data) ==
    IF "username" \notin DOMAIN data \/ "role" \notin DOMAIN data
    THEN Result(400, "Username, password, and role required")
    ELSE IF data.role \notin {"admin", "viewer"}
    THEN Result(400, "Role must be 'admin' or 'viewer'")
    ELSE Pass

(* create_admin looking at the body before the decorators look at the caller. *)
create_admin_validating_first(c) ==
    /\ req[c].pc = "idle"
    /\ nextId + Cardinality(Creating) <= MaxId
    /\ \E data \in CreateBodies :
        IF create_admin_validate(data) # Pass
        THEN /\ Respond(c, "create_admin", data, create_admin_validate(data))
             /\ UNCHANGED <<auth_users, nextId, db_txn, audit_log, audit_up, business_tables, session>>
        ELSE \/ Denied(c, "create_admin", data, AllowedRoles.create_admin)
             \/ /\ Admitted(c, AllowedRoles.create_admin)
                /\ Goto(c, "create_admin", "check", data)
                /\ UNCHANGED <<auth_users, nextId, db_txn, audit_log, audit_up, business_tables, session>>

create_admin(c) ==
    /\ req[c].pc = "idle"
    /\ nextId + Cardinality(Creating) <= MaxId
    /\ \E data \in CreateBodies :
        \/ Denied(c, "create_admin", data, AllowedRoles.create_admin)
        \/ /\ Admitted(c, AllowedRoles.create_admin)
           /\ IF create_admin_validate(data) # Pass
              THEN Respond(c, "create_admin", data, create_admin_validate(data))
              ELSE Goto(c, "create_admin", "check", data)
           /\ UNCHANGED <<auth_users, nextId, db_txn, audit_log, audit_up, business_tables, session>>

create_admin_check(c) ==
    /\ At(c, "create_admin", "check")
    /\ IF SelectByUsername(auth_users, req[c].args.username) # {}
       THEN Respond(c, "create_admin", req[c].args, Result(409, "Username already exists"))
       ELSE Goto(c, "create_admin", "insert", req[c].args)
    /\ UNCHANGED <<auth_users, nextId, db_txn, audit_log, audit_up, business_tables, session>>

(* INSERT + commit; the body's password is first used here, and is drawn  *)
(* here.  The UNIQUE constraint on username raises                       *)
(* sqlite3.IntegrityError, which the handler's except answers with 500   *)
(* and the text of the exception.                                        *)
create_admin_insert(c) ==
    /\ At(c, "create_admin", "insert")
    /\ CanWrite(c)
    /\ IF SelectByUsername(auth_users, req[c].args.username) # {}
       THEN /\ Respond(c, "create_admin", req[c].args,
                       Result(500, "UNIQUE constraint failed: auth_users.username"))
            /\ UNCHANGED <<auth_users, nextId>>
       ELSE \E password \in CreatePasswords :
            /\ auth_users' = auth_users @@
                   (nextId :> Row(req[c].args.username, generate_password_hash(password),
                                  req[c].args.role))
            /\ nextId' = nextId + 1
            /\ Goto(c, "create_admin", "log",
                    [username |-> req[c].args.username, role |-> req[c].args.role,
                     user_id |-> nextId])
    /\ UNCHANGED <<db_txn, audit_log, audit_up, business_tables, session>>

(* create_admin failing and undoing its INSERT when the audit write fails. *)
create_admin_log_or_rollback(c) ==
    /\ At(c, "create_admin", "log")
    /\ CanWrite(c)
    /\ IF audit_up
       THEN /\ log_audit_event(IF req[c].args.role = "admin" THEN "create_admin"
                                ELSE "create_viewer",
                               session[c].username, req[c].args.username, NoDetails)
            /\ Respond(c, "create_admin", req[c].args, Result(201, ""))
            /\ auth_users' = auth_users
       ELSE /\ audit_log' = audit_log
            /\ auth_users' = [i \in DOMAIN auth_users \ {req[c].args.user_id} |-> auth_users[i]]
            /\ Respond(c, "create_admin", req[c].args, Result(500, "audit write failed"))
    /\ UNCHANGED <<nextId, db_txn, audit_up, business_tables, session>>

create_admin_log(c) ==
    /\ At(c, "create_admin", "log")
    /\ CanWrite(c)
    /\ log_audit_event(IF req[c].args.role = "admin" THEN "create_admin" ELSE "create_viewer",
                       session[c].username, req[c].args.username, NoDetails)
    /\ Respond(c, "create_admin", req[c].args, Result(201, ""))
    /\ UNCHANGED <<auth_users, nextId, db_txn, audit_up, business_tables, session>>

(***************************************************************************)
(* DELETE /auth/admins/<admin_id> (owner only)                             *)
(***************************************************************************)
delete_admin(c) ==
    /\ req[c].pc = "idle"
    /\ \E admin_id \in Ids :
        \/ Denied(c, "delete_admin", [admin_id |-> admin_id], AllowedRoles.delete_admin)
        \/ /\ Admitted(c, AllowedRoles.delete_admin)
           /\ Goto(c, "delete_admin", "check", [admin_id |-> admin_id])
           /\ UNCHANGED <<auth_users, nextId, db_txn, audit_log, audit_up, business_tables, session>>

(* delete_admin's checks without the refusal to delete the owner. *)
delete_admin_checks_owner_unprotected(table, admin_id, session_user_id) ==
    IF admin_id \notin DOMAIN table THEN Result(404, "User not found")
    ELSE IF admin_id = session_user_id THEN Result(403, "Cannot delete your own account")
    ELSE Pass

(* delete_admin's checks without the refusal to delete the caller's own row. *)
delete_admin_checks_self_unprotected(table, admin_id, session_user_id) ==
    IF admin_id \notin DOMAIN table THEN Result(404, "User not found")
    ELSE IF table[admin_id].role = "owner" THEN Result(403, "Cannot delete the owner account")
    ELSE Pass

(* The handler's checks on the row it has read: what it answers with, or *)
(* Pass when it goes on to delete.                                        *)
delete_admin_checks(table, admin_id, session_user_id) ==
    IF admin_id \notin DOMAIN table THEN Result(404, "User not found")
    ELSE IF table[admin_id].role = "owner" THEN Result(403, "Cannot delete the owner account")
    ELSE IF admin_id = session_user_id THEN Result(403, "Cannot delete your own account")
    ELSE Pass

delete_admin_check(c) ==
    /\ At(c, "delete_admin", "check")
    /\ LET admin_id == req[c].args.admin_id
           result == delete_admin_checks(auth_users, admin_id, session[c].user_id) IN
       IF result # Pass
       THEN Respond(c, "delete_admin", req[c].args, result)
       ELSE Goto(c, "delete_admin", "delete",
                 [admin_id |-> admin_id, username |-> auth_users[admin_id].username,
                  role |-> auth_users[admin_id].role])
    /\ UNCHANGED <<auth_users, nextId, db_txn, audit_log, audit_up, business_tables, session>>

delete_admin_delete(c) ==
    /\ At(c, "delete_admin", "delete")
    /\ CanWrite(c)
    /\ auth_users' = [i \in DOMAIN auth_users \ {req[c].args.admin_id} |-> auth_users[i]]
    /\ Goto(c, "delete_admin", "log", req[c].args)
    /\ UNCHANGED <<nextId, db_txn, audit_log, audit_up, business_tables, session>>

delete_admin_log(c) ==
    /\ At(c, "delete_admin", "log")
    /\ CanWrite(c)
    /\ log_audit_event(IF req[c].args.role = "admin" THEN "delete_admin" ELSE "delete_viewer",
                       session[c].username, req[c].args.username, NoDetails)
    /\ Respond(c, "delete_admin", req[c].args, Result(200, ""))
    /\ UNCHANGED <<auth_users, nextId, db_txn, audit_up, business_tables, session>>

(***************************************************************************)
(* POST /auth/transfer-ownership (owner only)                              *)
(***************************************************************************)
TransferBodies == {NoBody} \cup [new_owner_username : Usernames]

(* A demotion that leaves the old owner a viewer. *)
DemoteOwnersToViewer(table) ==
    [i \in DOMAIN table |->
        IF table[i].role = "owner" THEN [table[i] EXCEPT !.role = "viewer"] ELSE table[i]]

(* A first UPDATE that matches no row. *)
DemoteNobody(table) == table

(* UPDATE auth_users SET role = 'admin' WHERE role = 'owner' *)
DemoteOwners(table) ==
    [i \in DOMAIN table |->
        IF table[i].role = "owner" THEN [table[i] EXCEPT !.role = "admin"] ELSE table[i]]

(* UPDATE auth_users SET role = 'owner' WHERE username = ? *)
PromoteUser(table, username) ==
    [i \in DOMAIN table |->
        IF table[i].username = username THEN [table[i] EXCEPT !.role = "owner"] ELSE table[i]]

(* Other connections reading the rows of a transaction that is still open. *)
ReadUncommitted(committed, uncommitted) == uncommitted

(* What the other connections read while a transaction is open: the table as *)
(* last committed, not the rows the open transaction has written.             *)
ReadCommitted(committed, uncommitted) == committed

transfer_ownership(c) ==
    /\ req[c].pc = "idle"
    /\ \E data \in TransferBodies :
        \/ Denied(c, "transfer_ownership", data, AllowedRoles.transfer_ownership)
        \/ /\ Admitted(c, AllowedRoles.transfer_ownership)
           /\ IF "new_owner_username" \notin DOMAIN data
              THEN Respond(c, "transfer_ownership", data,
                           Result(400, "New owner username required"))
              ELSE Goto(c, "transfer_ownership", "check", data)
           /\ UNCHANGED <<auth_users, nextId, db_txn, audit_log, audit_up, business_tables, session>>

(* transfer_ownership's checks refusing a viewer only, not the owner. *)
transfer_ownership_checks_viewer_only(table, new_owner_username) ==
    IF SelectByUsername(table, new_owner_username) = {} THEN Result(404, "User not found")
    ELSE IF table[IdOf(table, new_owner_username)].role = "viewer"
    THEN Result(400, "Can only transfer ownership to an admin user")
    ELSE Pass

(* The handler's checks on the named account: what it answers with, or *)
(* Pass when it goes on to the two updates.                            *)
transfer_ownership_checks(table, new_owner_username) ==
    IF SelectByUsername(table, new_owner_username) = {} THEN Result(404, "User not found")
    ELSE IF table[IdOf(table, new_owner_username)].role # "admin"
    THEN Result(400, "Can only transfer ownership to an admin user")
    ELSE Pass

transfer_ownership_check(c) ==
    /\ At(c, "transfer_ownership", "check")
    /\ LET result == transfer_ownership_checks(auth_users, req[c].args.new_owner_username) IN
       IF result # Pass
       THEN Respond(c, "transfer_ownership", req[c].args, result)
       ELSE Goto(c, "transfer_ownership", "demote", req[c].args)
    /\ UNCHANGED <<auth_users, nextId, db_txn, audit_log, audit_up, business_tables, session>>

(* The first UPDATE opens the transaction. *)
transfer_ownership_demote(c) ==
    /\ At(c, "transfer_ownership", "demote")
    /\ db_txn.by = "none"
    /\ db_txn' = [by |-> c, rows |-> DemoteOwners(auth_users)]
    /\ auth_users' = ReadCommitted(auth_users, DemoteOwners(auth_users))
    /\ Goto(c, "transfer_ownership", "promote", req[c].args)
    /\ UNCHANGED <<nextId, audit_log, audit_up, business_tables, session>>

(* The second UPDATE, and conn.commit(). *)
transfer_ownership_promote(c) ==
    /\ At(c, "transfer_ownership", "promote")
    /\ db_txn.by = c
    /\ auth_users' = PromoteUser(db_txn.rows, req[c].args.new_owner_username)
    /\ db_txn' = NoTxn
    /\ Goto(c, "transfer_ownership", "log", req[c].args)
    /\ UNCHANGED <<nextId, audit_log, audit_up, business_tables, session>>

(* session.clear() unless the caller is the new owner. *)
SessionAfterTransfer(sess, new_owner_username) ==
    IF sess.username # new_owner_username THEN EmptySession ELSE sess

(* The details of the handler's audit entry: the caller's session names the *)
(* old owner, the request body the new one.                                 *)
transfer_ownership_details(c) ==
    [old_owner |-> session[c].username, new_owner |-> req[c].args.new_owner_username]

transfer_ownership_log(c) ==
    /\ At(c, "transfer_ownership", "log")
    /\ CanWrite(c)
    /\ log_audit_event("transfer_ownership", session[c].username,
                       req[c].args.new_owner_username,
                       transfer_ownership_details(c))
    /\ session' = [session EXCEPT ![c] =
                      SessionAfterTransfer(session[c], req[c].args.new_owner_username)]
    /\ Respond(c, "transfer_ownership", req[c].args, Result(200, ""))
    /\ UNCHANGED <<auth_users, nextId, db_txn, audit_up, business_tables>>

(***************************************************************************)
(* POST /auth/reset-password (admin, owner)                                *)
(***************************************************************************)
(* A JSON body that is no object but a number or true: "'username' not in  *)
(* data" raises TypeError, whose text names the type of the body.           *)
TypeError ==
    [int |-> "argument of type 'int' is not iterable",
     bool |-> "argument of type 'bool' is not iterable"]

ResetBodies == {NoBody} \cup [type : DOMAIN TypeError] \cup [username : Usernames]

(* An UPDATE of the password hash that writes nothing. *)
SetPasswordNowhere(table, username, new_password) == table

(* The UPDATE of the password hash setting the account's role as well. *)
SetPasswordAndRole(table, username, new_password) ==
    [i \in DOMAIN table |->
        IF table[i].username = username
        THEN [table[i] EXCEPT !.password_hash = generate_password_hash(new_password),
                              !.role = "viewer"]
        ELSE table[i]]

(* An UPDATE of the password hash without its WHERE clause. *)
SetPasswordOfAll(table, username, new_password) ==
    [i \in DOMAIN table |->
        [table[i] EXCEPT !.password_hash = generate_password_hash(new_password)]]

SetPassword(table, username, new_password) ==
    [i \in DOMAIN table |->
        IF table[i].username = username
        THEN [table[i] EXCEPT !.password_hash = generate_password_hash(new_password)]
        ELSE table[i]]

reset_password(c) ==
    /\ req[c].pc = "idle"
    /\ \E data \in ResetBodies :
        \/ Denied(c, "reset_password", data, AllowedRoles.reset_password)
        \/ /\ Admitted(c, AllowedRoles.reset_password)
           /\ IF "type" \in DOMAIN data
              THEN Respond(c, "reset_password", data, Result(500, TypeError[data.type]))
              ELSE IF "username" \notin DOMAIN data
              THEN Respond(c, "reset_password", data,
                           Result(400, "Username and new password required"))
              ELSE Goto(c, "reset_password", "check", data)
           /\ UNCHANGED <<auth_users, nextId, db_txn, audit_log, audit_up, business_tables, session>>

(* The caller's role is session['role'], the target's is read from the table. *)
reset_password_checks(table, username, current_user_role) ==
    IF SelectByUsername(table, username) = {} THEN Result(404, "User not found")
    ELSE LET target_role == table[IdOf(table, username)].role IN
         IF current_user_role = "admin"
         THEN (IF target_role # "viewer"
               THEN Result(403, "Admins can only reset viewer passwords")
               ELSE Pass)
         ELSE IF current_user_role = "owner" THEN Pass
         ELSE Result(403, "Insufficient permissions")

reset_password_check(c) ==
    /\ At(c, "reset_password", "check")
    /\ LET result == reset_password_checks(auth_users, req[c].args.username, session[c].role) IN
       IF result # Pass
       THEN Respond(c, "reset_password", req[c].args, result)
       ELSE Goto(c, "reset_password", "update", req[c].args)
    /\ UNCHANGED <<auth_users, nextId, db_txn, audit_log, audit_up, business_tables, session>>

(* UPDATE + commit; the body's new_password is first used here, and is *)
(* drawn here.                                                         *)
reset_password_update(c) ==
    /\ At(c, "reset_password", "update")
    /\ CanWrite(c)
    /\ \E new_password \in Passwords :
        /\ auth_users' = SetPassword(auth_users, req[c].args.username, new_password)
        /\ Goto(c, "reset_password", "log",
                [username |-> req[c].args.username, new_password |-> new_password])
    /\ UNCHANGED <<nextId, db_txn, audit_log, audit_up, business_tables, session>>

reset_password_log(c) ==
    /\ At(c, "reset_password", "log")
    /\ CanWrite(c)
    /\ log_audit_event("reset_password", session[c].username, req[c].args.username, NoDetails)
    /\ Respond(c, "reset_password", req[c].args, Result(200, ""))
    /\ UNCHANGED <<auth_users, nextId, db_txn, audit_up, business_tables, session>>

(***************************************************************************)
(* POST /auth/change-password (admin, owner)                               *)
(***************************************************************************)
ChangeBodies == {NoBody} \cup [current_password : Passwords]

change_own_password(c) ==
    /\ req[c].pc = "idle"
    /\ \E data \in ChangeBodies :
        \/ Denied(c, "change_own_password", data, AllowedRoles.change_own_password)
        \/ /\ Admitted(c, AllowedRoles.change_own_password)
           /\ IF "current_password" \notin DOMAIN data
              THEN Respond(c, "change_own_password", data,
                           Result(400, "Current password and new password required"))
              ELSE Goto(c, "change_own_password", "check", data)
           /\ UNCHANGED <<auth_users, nextId, db_txn, audit_log, audit_up, business_tables, session>>

(* change_own_password without the verification of the current password. *)
change_own_password_checks_unverified(table, username, current_password) == Pass

change_own_password_checks(table, username, current_password) ==
    IF \/ SelectByUsername(table, username) = {}
       \/ ~check_password_hash(table[IdOf(table, username)].password_hash, current_password)
    THEN Result(401, "Current password is incorrect")
    ELSE Pass

change_own_password_check(c) ==
    /\ At(c, "change_own_password", "check")
    /\ LET result == change_own_password_checks(auth_users, session[c].username,
                                                req[c].args.current_password) IN
       IF result # Pass
       THEN Respond(c, "change_own_password", req[c].args, result)
       ELSE Goto(c, "change_own_password", "update", req[c].args)
    /\ UNCHANGED <<auth_users, nextId, db_txn, audit_log, audit_up, business_tables, session>>

(* UPDATE + commit, with the body's new_password, drawn here. *)
change_own_password_update(c) ==
    /\ At(c, "change_own_password", "update")
    /\ CanWrite(c)
    /\ \E new_password \in Passwords :
        /\ auth_users' = SetPassword(auth_users, session[c].username, new_password)
        /\ Goto(c, "change_own_password", "log",
                [current_password |-> req[c].args.current_password,
                 new_password |-> new_password])
    /\ UNCHANGED <<nextId, db_txn, audit_log, audit_up, business_tables, session>>

change_own_password_log(c) ==
    /\ At(c, "change_own_password", "log")
    /\ CanWrite(c)
    /\ log_audit_event("change_password", session[c].username, session[c].username, NoDetails)
    /\ Respond(c, "change_own_password", req[c].args, Result(200, ""))
    /\ UNCHANGED <<auth_users, nextId, db_txn, audit_up, business_tables, session>>

(***************************************************************************)
(* GET /audit/logs (owner only): the handler writes no audit entry.        *)
(***************************************************************************)
get_audit_logs(c) ==
    /\ req[c].pc = "idle"
    /\ \/ Denied(c, "get_audit_logs", NoBody, AllowedRoles.get_audit_logs)
       \/ /\ Admitted(c, AllowedRoles.get_audit_logs)
          /\ Goto(c, "get_audit_logs", "select", NoBody)
          /\ UNCHANGED <<auth_users, nextId, db_txn, audit_log, audit_up, business_tables, session>>

(* ORDER BY timestamp DESC: the row ids in an order of non-increasing      *)
(* timestamps.  Rows of the same second come in an order SQL leaves open.  *)
OrderByTimestampDesc(table) ==
    {order \in [1..Len(table) -> 1..Len(table)] :
        /\ \A i, j \in 1..Len(table) : i # j => order[i] # order[j]
        /\ \A i, j \in 1..Len(table) :
              i < j => table[order[i]].timestamp >= table[order[j]].timestamp}

(* LIMIT n *)
Limit(rows, n) == SubSeq(rows, 1, IF Len(rows) < n THEN Len(rows) ELSE n)

(* The loop over cursor.fetchall(): one dictionary per row. *)
LogsOf(table, ids) ==
    [k \in 1..Len(ids) |->
        [id |-> ids[k], timestamp |-> table[ids[k]].timestamp,
         action_type |-> table[ids[k]].action_type,
         performed_by |-> table[ids[k]].performed_by,
         target |-> table[ids[k]].target,
         details |-> IF DOMAIN table[ids[k]].details = {} THEN NoDetails
                     ELSE json_loads(table[ids[k]].details)]]

(* json.loads of a details column that holds no JSON raises; the handler's *)
(* except answers 500 with the text of the exception.                      *)
get_audit_logs_select(c) ==
    /\ At(c, "get_audit_logs", "select")
    /\ \E order \in OrderByTimestampDesc(audit_log) :
        LET ids == Limit(order, AuditLogLimit) IN
        IF \E k \in 1..Len(ids) :
              /\ DOMAIN audit_log[ids[k]].details # {}
              /\ json_loads_raises(audit_log[ids[k]].details)
        THEN Respond(c, "get_audit_logs", NoBody,
                     Result(500, "Expecting value: line 1 column 1 (char 0)"))
        ELSE Respond(c, "get_audit_logs", [logs |-> LogsOf(audit_log, ids)], Result(200, ""))
    /\ UNCHANGED <<auth_users, nextId, db_txn, audit_log, audit_up, business_tables, session>>

(***************************************************************************)
(* The endpoints of the users, licenses and license_types tables as        *)
(* SpecSeq takes them, for what they do to the accounts, the sessions and  *)
(* the audit log: the rows of the three tables are not followed here.      *)
(* Behind the decorators the handler answers with one of the statuses its  *)
(* code returns, and a success is followed by the handler's               *)
(* log_audit_event, where it has one.                                      *)
(***************************************************************************)
HandlerStatuses ==
    [get_license_types |-> {200}, create_license_type |-> {201, 400, 409},
     delete_license_type |-> {200, 400, 404},
     get_users |-> {200}, get_user |-> {200, 404},
     create_user |-> {201, 400, 409}, update_user |-> {200, 400, 404, 409},
     delete_user |-> {200, 404}, get_licenses |-> {200},
     assign_license |-> {201, 400, 404}, revoke_license |-> {200, 404}]

BusinessEndpoints == DOMAIN HandlerStatuses

BusinessAudit ==
    [get_license_types |-> "", create_license_type |-> "create_license_type",
     delete_license_type |-> "delete_license_type",
     get_users |-> "view_users", get_user |-> "view_user",
     create_user |-> "create_user", update_user |-> "update_user",
     delete_user |-> "delete_user", get_licenses |-> "view_licenses",
     assign_license |-> "assign_license", revoke_license |-> "revoke_license"]

business_request(c) ==
    /\ req[c].pc = "idle"
    /\ \E op \in BusinessEndpoints :
        \/ Denied(c, op, NoBody, AllowedRoles[op])
        \/ /\ Admitted(c, AllowedRoles[op])
           /\ Goto(c, op, "handler", NoBody)
           /\ UNCHANGED <<auth_users, nextId, db_txn, audit_log, audit_up, business_tables, session>>

business_handler(c) ==
    /\ req[c].pc = "handler"
    /\ req[c].op \in BusinessEndpoints
    /\ \E status \in HandlerStatuses[req[c].op] :
        /\ IF status \in {200, 201} /\ BusinessAudit[req[c].op] # ""
           THEN CanWrite(c) /\ log_audit_event(BusinessAudit[req[c].op], session[c].username,
                                               "", NoDetails)
           ELSE audit_log' = audit_log
        /\ Respond(c, req[c].op, NoBody, Result(status, ""))
    /\ UNCHANGED <<auth_users, nextId, db_txn, audit_up, business_tables, session>>

(***************************************************************************)
(* The handlers of the users, licenses and license_types tables, with the  *)
(* rows they read and write.  They are the steps of SpecLicenses; Spec,    *)
(* SpecSeq and SpecAudit do not take them, so that the three tables stay   *)
(* as init_db leaves them there.                                           *)
(***************************************************************************)
(* The requests of an endpoint that have yet to take the id of their INSERT. *)
Inserting(op) == {c \in Clients : req[c].op = op /\ req[c].pc \in {"check", "insert"}}

(* DELETE FROM table WHERE id IN ids *)
DeleteRows(table, ids) == [i \in DOMAIN table \ ids |-> table[i]]

(* f"user_id:{user_id}", f"license_id:{license_id}" *)
user_id_target(user_id) == "user_id:" \o ToString(user_id)

license_id_target(license_id) == "license_id:" \o ToString(license_id)

(* f"User with ID {user_id} not found" *)
UserNotFound(user_id) == Result(404, "User with ID " \o ToString(user_id) \o " not found")

get_icon_url(filename) == "/static/icons/" \o filename

(* licenses l LEFT JOIN license_types lt ON l.license_type_id = lt.id: the *)
(* row of license l with lt.name and lt.icon_filename, NULL without match. *)
LeftJoinLicenseType(l) ==
    LET matches == licenses[l].license_type_id \cap DOMAIN license_types IN
    [id |-> l, user_id |-> licenses[l].user_id,
     software_name |-> licenses[l].software_name,
     license_type_name |-> {license_types[t].name : t \in matches},
     icon_filename |-> UNION {license_types[t].icon_filename : t \in matches}]

(* get_user_by_id: the user's row, or None, and the user's licenses.  The *)
(* ORDER BY software_name of the second query is left out: the licenses   *)
(* are a set.                                                             *)
get_user_by_id(user_id) ==
    IF user_id \notin DOMAIN users
    THEN [user |-> NULL, licenses |-> {}]
    ELSE [user |-> Some([id |-> user_id, name |-> users[user_id].name,
                         email |-> users[user_id].email]),
          licenses |-> {LeftJoinLicenseType(l) :
                           l \in {k \in DOMAIN licenses : licenses[k].user_id = user_id}}]

(* format_single_user: the dictionary of the user, the licenses with their *)
(* license_type_name and icon_url.                                         *)
format_single_user(user, user_licenses) ==
    IF user = NULL THEN NULL
    ELSE LET row == CHOOSE u \in user : TRUE IN
         Some([id |-> row.id, name |-> row.name, email |-> row.email,
               licenses |->
                   {[id |-> l.id, software_name |-> l.software_name,
                     license_type_name |-> l.license_type_name,
                     icon_url |-> {get_icon_url(filename) : filename \in l.icon_filename}] :
                    l \in user_licenses}])

(***************************************************************************)
(* POST /users (admin, owner)                                              *)
(***************************************************************************)
UserBodies ==
    {NoBody} \cup [name : {"John Doe"}] \cup [name : {"", "John Doe"}, email : Emails]

(* The loop over required_fields = ['name', 'email']: a field is missing *)
(* when it is not in the body or is empty.                               *)
create_user_validate(data) ==
    IF DOMAIN data = {} THEN Result(400, "No JSON data provided")
    ELSE IF "name" \notin DOMAIN data \/ data.name = ""
    THEN Result(400, "Missing required field: name")
    ELSE IF "email" \notin DOMAIN data \/ data.email = ""
    THEN Result(400, "Missing required field: email")
    ELSE Pass

create_user(c) ==
    /\ req[c].pc = "idle"
    /\ sqlite_sequence.users + Cardinality(Inserting("create_user")) < MaxRows
    /\ \E data \in UserBodies :
        \/ Denied(c, "create_user", data, AllowedRoles.create_user)
        \/ /\ Admitted(c, AllowedRoles.create_user)
           /\ IF create_user_validate(data) # Pass
              THEN Respond(c, "create_user", data, create_user_validate(data))
              ELSE Goto(c, "create_user", "check", data)
           /\ UNCHANGED <<auth_users, nextId, db_txn, audit_log, audit_up, session,
                          business_tables>>

create_user_check(c) ==
    /\ At(c, "create_user", "check")
    /\ IF \E i \in DOMAIN users : users[i].email = req[c].args.email
       THEN Respond(c, "create_user", req[c].args,
                    Result(409, "User with this email already exists"))
       ELSE Goto(c, "create_user", "insert", req[c].args)
    /\ UNCHANGED <<auth_users, nextId, db_txn, audit_log, audit_up, session, business_tables>>

(* INSERT + commit.  email is UNIQUE: sqlite3.IntegrityError goes to the *)
(* handler's except.                                                     *)
create_user_insert(c) ==
    /\ At(c, "create_user", "insert")
    /\ CanWrite(c)
    /\ IF \E i \in DOMAIN users : users[i].email = req[c].args.email
       THEN /\ Respond(c, "create_user", req[c].args,
                       Result(500, "UNIQUE constraint failed: users.email"))
            /\ UNCHANGED <<users, sqlite_sequence>>
       ELSE LET user_id == sqlite_sequence.users + 1 IN
            /\ users' = users @@
                   (user_id :> [name |-> req[c].args.name, email |-> req[c].args.email])
            /\ sqlite_sequence' = [sqlite_sequence EXCEPT !.users = user_id]
            /\ Goto(c, "create_user", "log",
                    [name |-> req[c].args.name, email |-> req[c].args.email,
                     user_id |-> user_id])
    /\ UNCHANGED <<auth_users, nextId, db_txn, audit_log, audit_up, session,
                   license_types, licenses>>

(* get_user_by_id and format_single_user of the new row, log_audit_event, 201. *)
create_user_log(c) ==
    /\ At(c, "create_user", "log")
    /\ CanWrite(c)
    /\ log_audit_event("create_user", session[c].username, req[c].args.email,
                       [user_id |-> req[c].args.user_id, name |-> req[c].args.name])
    /\ LET found == get_user_by_id(req[c].args.user_id) IN
       Respond(c, "create_user",
               [name |-> req[c].args.name, email |-> req[c].args.email,
                user_id |-> req[c].args.user_id,
                user |-> format_single_user(found.user, found.licenses)],
               Result(201, ""))
    /\ UNCHANGED <<auth_users, nextId, db_txn, audit_up, session, business_tables>>

(***************************************************************************)
(* GET /users/<user_id> (admin, owner, viewer)                             *)
(***************************************************************************)
get_user(c) ==
    /\ req[c].pc = "idle"
    /\ \E user_id \in RowIds :
        \/ Denied(c, "get_user", [user_id |-> user_id], AllowedRoles.get_user)
        \/ /\ Admitted(c, AllowedRoles.get_user)
           /\ Goto(c, "get_user", "select", [user_id |-> user_id])
           /\ UNCHANGED <<auth_users, nextId, db_txn, audit_log, audit_up, session,
                          business_tables>>

get_user_select(c) ==
    /\ At(c, "get_user", "select")
    /\ LET found == get_user_by_id(req[c].args.user_id) IN
       IF found.user = NULL
       THEN /\ Respond(c, "get_user", req[c].args, UserNotFound(req[c].args.user_id))
            /\ audit_log' = audit_log
       ELSE /\ CanWrite(c)
            /\ log_audit_event("view_user", session[c].username,
                               user_id_target(req[c].args.user_id), NoDetails)
            /\ Respond(c, "get_user",
                       [user_id |-> req[c].args.user_id,
                        user |-> format_single_user(found.user, found.licenses)],
                       Result(200, ""))
    /\ UNCHANGED <<auth_users, nextId, db_txn, audit_up, session, business_tables>>

(***************************************************************************)
(* DELETE /users/<user_id> (admin, owner)                                  *)
(***************************************************************************)
delete_user(c) ==
    /\ req[c].pc = "idle"
    /\ \E user_id \in RowIds :
        \/ Denied(c, "delete_user", [user_id |-> user_id], AllowedRoles.delete_user)
        \/ /\ Admitted(c, AllowedRoles.delete_user)
           /\ Goto(c, "delete_user", "check", [user_id |-> user_id])
           /\ UNCHANGED <<auth_users, nextId, db_txn, audit_log, audit_up, session,
                          business_tables>>

delete_user_check(c) ==
    /\ At(c, "delete_user", "check")
    /\ IF get_user_by_id(req[c].args.user_id).user = NULL
       THEN Respond(c, "delete_user", req[c].args, UserNotFound(req[c].args.user_id))
       ELSE Goto(c, "delete_user", "delete",
                 [user_id |-> req[c].args.user_id,
                  user_email |-> users[req[c].args.user_id].email])
    /\ UNCHANGED <<auth_users, nextId, db_txn, audit_log, audit_up, session, business_tables>>

(* DELETE FROM licenses WHERE user_id = ?, DELETE FROM users WHERE id = ?, *)
(* commit.                                                                 *)
delete_user_delete(c) ==
    /\ At(c, "delete_user", "delete")
    /\ CanWrite(c)
    /\ LET of_user == {l \in DOMAIN licenses : licenses[l].user_id = req[c].args.user_id} IN
       /\ licenses' = DeleteRows(licenses, of_user)
       /\ users' = DeleteRows(users, {req[c].args.user_id})
       /\ Goto(c, "delete_user", "log",
               [user_id |-> req[c].args.user_id, user_email |-> req[c].args.user_email,
                licenses_deleted |-> Cardinality(of_user)])
    /\ UNCHANGED <<auth_users, nextId, db_txn, audit_log, audit_up, session,
                   license_types, sqlite_sequence>>

delete_user_log(c) ==
    /\ At(c, "delete_user", "log")
    /\ CanWrite(c)
    /\ log_audit_event("delete_user", session[c].username,
                       user_id_target(req[c].args.user_id),
                       [user_email |-> req[c].args.user_email,
                        licenses_deleted |-> req[c].args.licenses_deleted])
    /\ Respond(c, "delete_user", req[c].args, Result(200, ""))
    /\ UNCHANGED <<auth_users, nextId, db_txn, audit_up, session, business_tables>>

(***************************************************************************)
(* POST /license-types (admin, owner): JSON, or a form with an icon file   *)
(***************************************************************************)
ALLOWED_EXTENSIONS == {"png", "jpg", "jpeg", "gif", "svg", "webp"}

(* An uploaded file, by the extension of its name. *)
IconFiles == [ext : {"png", "exe"}]

allowed_file(file) == file.ext \in ALLOWED_EXTENSIONS

(* The name the file is saved under, or None. *)
save_uploaded_file(file) ==
    IF allowed_file(file) THEN Some("uuid4." \o file.ext) ELSE NULL

LicenseTypeBodies ==
    {NoBody} \cup [name : LicenseTypeNames, icon : {NULL} \cup {Some(f) : f \in IconFiles}]

create_license_type(c) ==
    /\ req[c].pc = "idle"
    /\ sqlite_sequence.license_types + Cardinality(Inserting("create_license_type")) < MaxRows
    /\ \E data \in LicenseTypeBodies :
        \/ Denied(c, "create_license_type", data, AllowedRoles.create_license_type)
        \/ /\ Admitted(c, AllowedRoles.create_license_type)
           /\ IF DOMAIN data = {}
              THEN Respond(c, "create_license_type", data, Result(400, "No data provided"))
              ELSE IF data.name = ""
              THEN Respond(c, "create_license_type", data,
                           Result(400, "License type name is required"))
              ELSE Goto(c, "create_license_type", "check", data)
           /\ UNCHANGED <<auth_users, nextId, db_txn, audit_log, audit_up, session,
                          business_tables>>

(* The SELECT by name, then the upload of the icon. *)
create_license_type_check(c) ==
    /\ At(c, "create_license_type", "check")
    /\ IF \E t \in DOMAIN license_types : license_types[t].name = req[c].args.name
       THEN Respond(c, "create_license_type", req[c].args,
                    Result(409, "License type with this name already exists"))
       ELSE IF \E file \in req[c].args.icon : save_uploaded_file(file) = NULL
       THEN Respond(c, "create_license_type", req[c].args,
                    Result(400, "Invalid file type. Allowed: jpg, jpeg, png, gif, svg, webp"))
       ELSE Goto(c, "create_license_type", "insert",
                 [name |-> req[c].args.name,
                  icon_filename |-> UNION {save_uploaded_file(file) : file \in req[c].args.icon}])
    /\ UNCHANGED <<auth_users, nextId, db_txn, audit_log, audit_up, session, business_tables>>

(* INSERT + commit.  name is UNIQUE. *)
create_license_type_insert(c) ==
    /\ At(c, "create_license_type", "insert")
    /\ CanWrite(c)
    /\ IF \E t \in DOMAIN license_types : license_types[t].name = req[c].args.name
       THEN /\ Respond(c, "create_license_type", req[c].args,
                       Result(500, "UNIQUE constraint failed: license_types.name"))
            /\ UNCHANGED <<license_types, sqlite_sequence>>
       ELSE LET license_type_id == sqlite_sequence.license_types + 1 IN
            /\ license_types' = license_types @@
                   (license_type_id :> [name |-> req[c].args.name,
                                        icon_filename |-> req[c].args.icon_filename])
            /\ sqlite_sequence' = [sqlite_sequence EXCEPT !.license_types = license_type_id]
            /\ Goto(c, "create_license_type", "log",
                    [name |-> req[c].args.name, icon_filename |-> req[c].args.icon_filename,
                     license_type_id |-> license_type_id])
    /\ UNCHANGED <<auth_users, nextId, db_txn, audit_log, audit_up, session, users, licenses>>

create_license_type_log(c) ==
    /\ At(c, "create_license_type", "log")
    /\ CanWrite(c)
    /\ log_audit_event("create_license_type", session[c].username, req[c].args.name,
                       [license_type_id |-> req[c].args.license_type_id,
                        icon_filename |-> req[c].args.icon_filename])
    /\ Respond(c, "create_license_type", req[c].args, Result(201, ""))
    /\ UNCHANGED <<auth_users, nextId, db_txn, audit_up, session, business_tables>>

(***************************************************************************)
(* DELETE /license-types/<license_type_id> (admin, owner)                  *)
(***************************************************************************)
delete_license_type(c) ==
    /\ req[c].pc = "idle"
    /\ \E license_type_id \in RowIds :
        \/ Denied(c, "delete_license_type", [license_type_id |-> license_type_id],
                  AllowedRoles.delete_license_type)
        \/ /\ Admitted(c, AllowedRoles.delete_license_type)
           /\ Goto(c, "delete_license_type", "check", [license_type_id |-> license_type_id])
           /\ UNCHANGED <<auth_users, nextId, db_txn, audit_log, audit_up, session,
                          business_tables>>

(* The SELECT of the row, and the COUNT of the licenses that use it. *)
delete_license_type_check(c) ==
    /\ At(c, "delete_license_type", "check")
    /\ LET license_type_id == req[c].args.license_type_id IN
       IF license_type_id \notin DOMAIN license_types
       THEN Respond(c, "delete_license_type", req[c].args,
                    Result(404, "License type not found"))
       ELSE IF \E l \in DOMAIN licenses : license_type_id \in licenses[l].license_type_id
       THEN Respond(c, "delete_license_type", req[c].args,
                    Result(400, "Cannot delete license type that is currently in use"))
       ELSE Goto(c, "delete_license_type", "delete",
                 [license_type_id |-> license_type_id,
                  name |-> license_types[license_type_id].name,
                  icon_filename |-> license_types[license_type_id].icon_filename])
    /\ UNCHANGED <<auth_users, nextId, db_txn, audit_log, audit_up, session, business_tables>>

delete_license_type_delete(c) ==
    /\ At(c, "delete_license_type", "delete")
    /\ CanWrite(c)
    /\ license_types' = DeleteRows(license_types, {req[c].args.license_type_id})
    /\ Goto(c, "delete_license_type", "log", req[c].args)
    /\ UNCHANGED <<auth_users, nextId, db_txn, audit_log, audit_up, session,
                   users, licenses, sqlite_sequence>>

delete_license_type_log(c) ==
    /\ At(c, "delete_license_type", "log")
    /\ CanWrite(c)
    /\ log_audit_event("delete_license_type", session[c].username, req[c].args.name,
                       [license_type_id |-> req[c].args.license_type_id,
                        icon_filename |-> req[c].args.icon_filename])
    /\ Respond(c, "delete_license_type", req[c].args, Result(200, ""))
    /\ UNCHANGED <<auth_users, nextId, db_txn, audit_up, session, business_tables>>

(***************************************************************************)
(* POST /licenses (admin, owner)                                           *)
(***************************************************************************)
LicenseBodies ==
    {NoBody} \cup [user_id : RowIds, software_name : SoftwareNames]
             \cup [user_id : RowIds, software_name : SoftwareNames, license_type_id : RowIds]

(* The loop over required_fields = ['user_id', 'software_name']. *)
assign_license_validate(data) ==
    IF DOMAIN data = {} THEN Result(400, "No JSON data provided")
    ELSE IF "user_id" \notin DOMAIN data \/ data.user_id = 0
    THEN Result(400, "Missing required field: user_id")
    ELSE IF "software_name" \notin DOMAIN data \/ data.software_name = ""
    THEN Result(400, "Missing required field: software_name")
    ELSE Pass

(* The row the handler's INSERT writes: user_id, software_name, license_key, *)
(* license_type and notes from the body; license_type_id is not among the    *)
(* columns of the INSERT and stays NULL.                                     *)
LicenseRow(data) ==
    [user_id |-> data.user_id, license_type_id |-> NULL, software_name |-> data.software_name]

assign_license(c) ==
    /\ req[c].pc = "idle"
    /\ sqlite_sequence.licenses + Cardinality(Inserting("assign_license")) < MaxRows
    /\ \E data \in LicenseBodies :
        \/ Denied(c, "assign_license", data, AllowedRoles.assign_license)
        \/ /\ Admitted(c, AllowedRoles.assign_license)
           /\ IF assign_license_validate(data) # Pass
              THEN Respond(c, "assign_license", data, assign_license_validate(data))
              ELSE Goto(c, "assign_license", "check", data)
           /\ UNCHANGED <<auth_users, nextId, db_txn, audit_log, audit_up, session,
                          business_tables>>

assign_license_check(c) ==
    /\ At(c, "assign_license", "check")
    /\ IF get_user_by_id(req[c].args.user_id).user = NULL
       THEN Respond(c, "assign_license", req[c].args, UserNotFound(req[c].args.user_id))
       ELSE Goto(c, "assign_license", "insert", req[c].args)
    /\ UNCHANGED <<auth_users, nextId, db_txn, audit_log, audit_up, session, business_tables>>

(* INSERT + commit.  The connection does not turn foreign keys on. *)
assign_license_insert(c) ==
    /\ At(c, "assign_license", "insert")
    /\ CanWrite(c)
    /\ LET license_id == sqlite_sequence.licenses + 1 IN
       /\ licenses' = licenses @@ (license_id :> LicenseRow(req[c].args))
       /\ sqlite_sequence' = [sqlite_sequence EXCEPT !.licenses = license_id]
       /\ Goto(c, "assign_license", "log",
               [body |-> req[c].args, license_id |-> license_id])
    /\ UNCHANGED <<auth_users, nextId, db_txn, audit_log, audit_up, session,
                   users, license_types>>

assign_license_log(c) ==
    /\ At(c, "assign_license", "log")
    /\ CanWrite(c)
    /\ log_audit_event("assign_license", session[c].username,
                       user_id_target(req[c].args.body.user_id),
                       [license_id |-> req[c].args.license_id,
                        software_name |-> req[c].args.body.software_name])
    /\ Respond(c, "assign_license", req[c].args, Result(201, ""))
    /\ UNCHANGED <<auth_users, nextId, db_txn, audit_up, session, business_tables>>

(***************************************************************************)
(* DELETE /licenses/<license_id> (admin, owner)                            *)
(***************************************************************************)
revoke_license(c) ==
    /\ req[c].pc = "idle"
    /\ \E license_id \in RowIds :
        \/ Denied(c, "revoke_license", [license_id |-> license_id],
                  AllowedRoles.revoke_license)
        \/ /\ Admitted(c, AllowedRoles.revoke_license)
           /\ Goto(c, "revoke_license", "check", [license_id |-> license_id])
           /\ UNCHANGED <<auth_users, nextId, db_txn, audit_log, audit_up, session,
                          business_tables>>

(* licenses l JOIN users u ON l.user_id = u.id WHERE l.id = ? *)
revoke_license_check(c) ==
    /\ At(c, "revoke_license", "check")
    /\ LET license_id == req[c].args.license_id IN
       IF license_id \notin DOMAIN licenses \/ licenses[license_id].user_id \notin DOMAIN users
       THEN Respond(c, "revoke_license", req[c].args,
                    Result(404, "License with ID " \o ToString(license_id) \o " not found"))
       ELSE Goto(c, "revoke_license", "delete",
                 [license_id |-> license_id,
                  software_name |-> licenses[license_id].software_name,
                  user_id |-> licenses[license_id].user_id])
    /\ UNCHANGED <<auth_users, nextId, db_txn, audit_log, audit_up, session, business_tables>>

revoke_license_delete(c) ==
    /\ At(c, "revoke_license", "delete")
    /\ CanWrite(c)
    /\ licenses' = DeleteRows(licenses, {req[c].args.license_id})
    /\ Goto(c, "revoke_license", "log", req[c].args)
    /\ UNCHANGED <<auth_users, nextId, db_txn, audit_log, audit_up, session,
                   users, license_types, sqlite_sequence>>

revoke_license_log(c) ==
    /\ At(c, "revoke_license", "log")
    /\ CanWrite(c)
    /\ log_audit_event("revoke_license", session[c].username,
                       license_id_target(req[c].args.license_id),
                       [software_name |-> req[c].args.software_name,
                        user_id |-> req[c].args.user_id])
    /\ Respond(c, "revoke_license", req[c].args, Result(200, ""))
    /\ UNCHANGED <<auth_users, nextId, db_txn, audit_up, session, business_tables>>

(***************************************************************************)
(* Spec: the account store under concurrent requests.  Every client sends  *)
(* login, logout, /auth/me and the owner's account operations; the steps   *)
(* of the clients' handlers interleave freely.                             *)
(***************************************************************************)
Next ==
    \E c \in Clients :
        \/ login(c) \/ login_log(c) \/ logout(c) \/ get_current_user(c)
        \/ create_admin(c) \/ create_admin_check(c) \/ create_admin_insert(c)
        \/ create_admin_log(c)
        \/ delete_admin(c) \/ delete_admin_check(c) \/ delete_admin_delete(c)
        \/ delete_admin_log(c)
        \/ transfer_ownership(c) \/ transfer_ownership_check(c)
        \/ transfer_ownership_demote(c) \/ transfer_ownership_promote(c)
        \/ transfer_ownership_log(c)
        \/ Receive(c)

Spec == Init /\ [][Next]_vars

(***************************************************************************)
(* SpecSeq: every endpoint, one request at a time (a client sends its      *)
(* request when no other request is being handled or waits to be read).    *)
(***************************************************************************)
OthersIdle(c) == \A d \in Clients \ {c} : req[d].pc = "idle"

NextSeq ==
    \E c \in Clients :
        \/ OthersIdle(c) /\ login(c)
        \/ OthersIdle(c) /\ login_log(c)
        \/ OthersIdle(c) /\ logout(c)
        \/ OthersIdle(c) /\ get_current_user(c)
        \/ OthersIdle(c) /\ get_admins(c)
        \/ OthersIdle(c) /\ get_admins_select(c)
        \/ OthersIdle(c) /\ create_admin(c)
        \/ OthersIdle(c) /\ create_admin_check(c)
        \/ OthersIdle(c) /\ create_admin_insert(c)
        \/ OthersIdle(c) /\ create_admin_log(c)
        \/ OthersIdle(c) /\ delete_admin(c)
        \/ OthersIdle(c) /\ delete_admin_check(c)
        \/ OthersIdle(c) /\ delete_admin_delete(c)
        \/ OthersIdle(c) /\ delete_admin_log(c)
        \/ OthersIdle(c) /\ transfer_ownership(c)
        \/ OthersIdle(c) /\ transfer_ownership_check(c)
        \/ OthersIdle(c) /\ transfer_ownership_demote(c)
        \/ OthersIdle(c) /\ transfer_ownership_promote(c)
        \/ OthersIdle(c) /\ transfer_ownership_log(c)
        \/ OthersIdle(c) /\ reset_password(c)
        \/ OthersIdle(c) /\ reset_password_check(c)
        \/ OthersIdle(c) /\ reset_password_update(c)
        \/ OthersIdle(c) /\ reset_password_log(c)
        \/ OthersIdle(c) /\ change_own_password(c)
        \/ OthersIdle(c) /\ change_own_password_check(c)
        \/ OthersIdle(c) /\ change_own_password_update(c)
        \/ OthersIdle(c) /\ change_own_password_log(c)
        \/ OthersIdle(c) /\ get_audit_logs(c)
        \/ OthersIdle(c) /\ get_audit_logs_select(c)
        \/ OthersIdle(c) /\ business_request(c)
        \/ OthersIdle(c) /\ business_handler(c)
        \/ OthersIdle(c) /\ Receive(c)

SpecSeq == Init /\ [][NextSeq]_vars

(***************************************************************************)
(* SpecAudit: the audit log.  One client sends the requests of the account *)
(* and audit endpoints one after the other; the audit store either works  *)
(* or is down.                                                             *)
(***************************************************************************)
AuditClients == {"c1"}

(* The audit store works, or every INSERT of log_audit_event fails. *)
InitAudit ==
    /\ init_auth_tables
    /\ init_db
    /\ db_txn = NoTxn
    /\ audit_up \in BOOLEAN
    /\ session = [c \in Clients |-> EmptySession]
    /\ req = [c \in Clients |-> Idle]

NextAudit ==
    \E c \in AuditClients :
        \/ login(c)
        \/ login_log(c)
        \/ logout(c)
        \/ create_admin(c)
        \/ create_admin_check(c)
        \/ create_admin_insert(c)
        \/ create_admin_log(c)
        \/ delete_admin(c)
        \/ delete_admin_check(c)
        \/ delete_admin_delete(c)
        \/ delete_admin_log(c)
        \/ transfer_ownership(c)
        \/ transfer_ownership_check(c)
        \/ transfer_ownership_demote(c)
        \/ transfer_ownership_promote(c)
        \/ transfer_ownership_log(c)
        \/ reset_password(c)
        \/ reset_password_check(c)
        \/ reset_password_update(c)
        \/ reset_password_log(c)
        \/ change_own_password(c)
        \/ change_own_password_check(c)
        \/ change_own_password_update(c)
        \/ change_own_password_log(c)
        \/ get_audit_logs(c)
        \/ get_audit_logs_select(c)
        \/ Receive(c)

SpecAudit == InitAudit /\ [][NextAudit]_vars

(***************************************************************************)
(* SpecLicenses: the users, licenses and license_types tables.  One client *)
(* logs in and sends the requests of their endpoints one after the other.  *)
(***************************************************************************)
LicenseClients == {"c1"}

NextLicenses ==
    \E c \in LicenseClients :
        \/ login(c)
        \/ login_log(c)
        \/ logout(c)
        \/ create_user(c)
        \/ create_user_check(c)
        \/ create_user_insert(c)
        \/ create_user_log(c)
        \/ get_user(c)
        \/ get_user_select(c)
        \/ delete_user(c)
        \/ delete_user_check(c)
        \/ delete_user_delete(c)
        \/ delete_user_log(c)
        \/ create_license_type(c)
        \/ create_license_type_check(c)
        \/ create_license_type_insert(c)
        \/ create_license_type_log(c)
        \/ delete_license_type(c)
        \/ delete_license_type_check(c)
        \/ delete_license_type_delete(c)
        \/ delete_license_type_log(c)
        \/ assign_license(c)
        \/ assign_license_check(c)
        \/ assign_license_insert(c)
        \/ assign_license_log(c)
        \/ revoke_license(c)
        \/ revoke_license_check(c)
        \/ revoke_license_delete(c)
        \/ revoke_license_log(c)
        \/ Receive(c)

SpecLicenses == Init /\ [][NextLicenses]_vars

(***************************************************************************)
(* SpecErrors: the requests of two clients to login and reset-password,    *)
(* interleaved, for the responses two clients hold at the same time.       *)
(***************************************************************************)
NextErrors ==
    \E c \in Clients :
        \/ login(c)
        \/ login_log(c)
        \/ reset_password(c)
        \/ reset_password_check(c)
        \/ reset_password_update(c)
        \/ reset_password_log(c)
        \/ Receive(c)

SpecErrors == Init /\ [][NextErrors]_vars

(***************************************************************************)
(* SpecUsers: the requests of two clients that create and delete users and *)
(* assign licenses, interleaved.                                           *)
(***************************************************************************)
NextUsers ==
    \E c \in Clients :
        \/ login(c)
        \/ login_log(c)
        \/ create_user(c)
        \/ create_user_check(c)
        \/ create_user_insert(c)
        \/ create_user_log(c)
        \/ delete_user(c)
        \/ delete_user_check(c)
        \/ delete_user_delete(c)
        \/ delete_user_log(c)
        \/ assign_license(c)
        \/ assign_license_check(c)
        \/ assign_license_insert(c)
        \/ assign_license_log(c)
        \/ Receive(c)

SpecUsers == Init /\ [][NextUsers]_vars

(***************************************************************************)
(* Properties                                                              *)
(***************************************************************************)
LoggedIn(c) == "username" \in DOMAIN session[c]

(* The role auth_users holds now for the account the session of c names. *)
CallerExists(c) == LoggedIn(c) /\ SelectByUsername(auth_users, session[c].username) # {}

CallerRole(c) == auth_users[IdOf(auth_users, session[c].username)].role

(* Client c takes a step of its request. *)
Steps(c) == req'[c] # req[c]

(* The request of c to endpoint op has been answered with this status and error. *)
Refused(c, op, status, text) ==
    /\ req[c].op = op /\ req[c].pc = "done"
    /\ req[c].status = status /\ req[c].error.text = text

(* C1: in every reachable state, under every interleaving of the requests, *)
(* exactly one account has role owner.                                     *)
C1_ExactlyOneOwner == Cardinality(Owners(auth_users)) = 1

(* C2: a transfer by owner O to admin A (the roles the table holds when the  *)
(* two updates are applied) leaves O admin and A owner, and changes no other *)
(* account's role, no account's password hash and no account's existence.    *)
C2_TransferSwapsRoles ==
    [][\A c \in Clients :
        LET new_owner_username == req[c].args.new_owner_username IN
        ( /\ At(c, "transfer_ownership", "promote") /\ Steps(c)
          /\ CallerExists(c) /\ CallerRole(c) = "owner"
          /\ SelectByUsername(auth_users, new_owner_username) # {}
          /\ auth_users[IdOf(auth_users, new_owner_username)].role = "admin" )
        => LET O == IdOf(auth_users, session[c].username)
               A == IdOf(auth_users, new_owner_username) IN
           /\ DOMAIN auth_users' = DOMAIN auth_users
           /\ auth_users'[O].role = "admin"
           /\ auth_users'[A].role = "owner"
           /\ \A i \in DOMAIN auth_users \ {O, A} : auth_users'[i].role = auth_users[i].role
           /\ \A i \in DOMAIN auth_users :
                /\ auth_users'[i].password_hash = auth_users[i].password_hash
                /\ auth_users'[i].username = auth_users[i].username
    ]_vars

(* A transfer has been answered 200 with three accounts in the table: the old *)
(* owner now admin, the named account owner, the third account a viewer.      *)
C2_Witness ==
    \E c \in Clients :
        /\ req[c].op = "transfer_ownership" /\ req[c].pc = "done" /\ req[c].status = 200
        /\ Cardinality(DOMAIN auth_users) = 3
        /\ \E i \in DOMAIN auth_users :
              /\ auth_users[i].username = req[c].args.new_owner_username
              /\ auth_users[i].role = "owner"
        /\ \E i \in DOMAIN auth_users : auth_users[i].role = "viewer"
        /\ auth_users[1].role = "admin"

(* C3: once a transfer has been answered 200, the session that sent it is  *)
(* gone: the client is logged out.                                         *)
C3_TransferEndsSession ==
    \A c \in Clients :
        (req[c].op = "transfer_ownership" /\ req[c].pc = "done" /\ req[c].status = 200)
        => ~LoggedIn(c)

(* C4: the two updates of a transfer become visible together: a step of a   *)
(* transfer either leaves the table the other requests read as it is, or    *)
(* is the commit, which applies the demotion and the promotion at once.     *)
C4_TransferAllOrNothing ==
    [][\A c \in Clients :
        (req[c].op = "transfer_ownership" /\ Steps(c))
        => \/ auth_users' = auth_users
           \/ /\ req[c].pc = "promote"
              /\ auth_users' = PromoteUser(DemoteOwners(auth_users),
                                           req[c].args.new_owner_username)
    ]_vars

(* Between the two updates of c, with the owner demoted in c's transaction, *)
(* another request is about to read the table and still finds the owner.    *)
C4_Witness ==
    \E c, d \in Clients :
        /\ c # d
        /\ At(c, "transfer_ownership", "promote")
        /\ db_txn.by = c /\ Owners(db_txn.rows) = {}
        /\ req[d].pc = "check"
        /\ Cardinality(Owners(auth_users)) = 1

(* C5: the transfer handler answers 404 when the named account does not    *)
(* exist and 400 when its role is viewer or owner; an answer of the        *)
(* handler's checks changes no account and leaves the caller logged in.    *)
C5_TransferRejects ==
    [][\A c \in Clients :
        (At(c, "transfer_ownership", "check") /\ Steps(c))
        => LET target == SelectByUsername(auth_users, req[c].args.new_owner_username) IN
           /\ target = {} => (req'[c].pc = "done" /\ req'[c].status = 404)
           /\ (target # {} /\ \A i \in target : auth_users[i].role \in {"viewer", "owner"})
                => (req'[c].pc = "done" /\ req'[c].status = 400)
           /\ req'[c].pc = "done"
                => /\ req'[c].status \in {400, 404}
                   /\ auth_users' = auth_users /\ db_txn' = db_txn
                   /\ session' = session /\ LoggedIn(c)
    ]_vars

(* One owner session has been answered 404 for a name no account has, another *)
(* 400 for naming the owner; both are still logged in.                          *)
C5_Witness ==
    \E c, d \in Clients :
        /\ Refused(c, "transfer_ownership", 404, "User not found")
        /\ SelectByUsername(auth_users, req[c].args.new_owner_username) = {}
        /\ Refused(d, "transfer_ownership", 400, "Can only transfer ownership to an admin user")
        /\ \E i \in Owners(auth_users) :
              auth_users[i].username = req[d].args.new_owner_username
        /\ LoggedIn(c) /\ LoggedIn(d)

(* C6: a delete request of a logged-in caller whose target row has role     *)
(* owner is answered 403, by the decorator (the caller is not the owner) or *)
(* by the handler when it reads the row, and the table is unchanged.        *)
C6_OwnerNeverDeleted ==
    [][\A c \in Clients :
        LET admin_id == req'[c].args.admin_id IN
        /\ ( /\ req[c].pc = "idle" /\ Steps(c) /\ req'[c].op = "delete_admin"
             /\ CallerExists(c) /\ admin_id \in Owners(auth_users) )
           => /\ \/ req'[c].pc = "done" /\ req'[c].status = 403
                 \/ req'[c].pc = "check" /\ CallerRole(c) = "owner"
              /\ auth_users' = auth_users
        /\ ( /\ At(c, "delete_admin", "check") /\ Steps(c)
             /\ admin_id \in Owners(auth_users) )
           => /\ req'[c].pc = "done" /\ req'[c].status = 403
              /\ auth_users' = auth_users
    ]_vars

(* The handler has refused to delete a row that holds the owner and is not *)
(* the caller's own: the row became the owner's after the decorator let    *)
(* the caller in.                                                          *)
C6_Witness ==
    \E c \in Clients :
        /\ Refused(c, "delete_admin", 403, "Cannot delete the owner account")
        /\ req[c].args.admin_id \in Owners(auth_users)
        /\ LoggedIn(c) /\ session[c].user_id # req[c].args.admin_id

(* C7: a delete request naming the row of the caller's own session         *)
(* (session['user_id']) is answered 403 while that row exists, and no step *)
(* of a delete request removes the row of the session that sent it.        *)
C7_NoSelfDelete ==
    [][\A c \in Clients :
        LET admin_id == req'[c].args.admin_id IN
        /\ ( /\ req[c].pc = "idle" /\ Steps(c) /\ req'[c].op = "delete_admin"
             /\ LoggedIn(c) /\ admin_id = session[c].user_id
             /\ admin_id \in DOMAIN auth_users )
           => \/ req'[c].pc = "done" /\ req'[c].status = 403
              \/ req'[c].pc = "check"
        /\ ( /\ At(c, "delete_admin", "check") /\ Steps(c)
             /\ admin_id = session[c].user_id /\ admin_id \in DOMAIN auth_users )
           => req'[c].pc = "done" /\ req'[c].status = 403
        /\ ( /\ req[c].op = "delete_admin" /\ Steps(c) /\ LoggedIn(c)
             /\ session[c].user_id \in DOMAIN auth_users )
           => session[c].user_id \in DOMAIN auth_users'
    ]_vars

(* The handler has refused to delete the caller's own row, which is not the *)
(* owner's: the self-deletion check, not the owner check, answered.         *)
C7_Witness ==
    \E c \in Clients :
        /\ Refused(c, "delete_admin", 403, "Cannot delete your own account")
        /\ LoggedIn(c) /\ req[c].args.admin_id = session[c].user_id
        /\ session[c].user_id \in DOMAIN auth_users
        /\ auth_users[session[c].user_id].role = "admin"

(* The permission matrix as the specification's table gives it, one row per *)
(* endpoint of the operation.                                               *)
PermissionMatrix ==
    [get_license_types |-> {"owner", "admin", "viewer"},
     get_users |-> {"owner", "admin", "viewer"},
     get_user |-> {"owner", "admin", "viewer"},
     get_licenses |-> {"owner", "admin", "viewer"},
     create_user |-> {"owner", "admin"}, update_user |-> {"owner", "admin"},
     delete_user |-> {"owner", "admin"},
     assign_license |-> {"owner", "admin"}, revoke_license |-> {"owner", "admin"},
     create_license_type |-> {"owner", "admin"}, delete_license_type |-> {"owner", "admin"},
     change_own_password |-> {"owner", "admin"},
     get_admins |-> {"owner"}, create_admin |-> {"owner"}, delete_admin |-> {"owner"},
     transfer_ownership |-> {"owner"}, get_audit_logs |-> {"owner"}]

(* C8: a request of a logged-in caller to an operation of the permission    *)
(* matrix is let through to the handler exactly when the matrix allows the  *)
(* role the caller's account holds; otherwise it is answered 403 and        *)
(* nothing changes.                                                         *)
C8_PermissionMatrix ==
    [][\A c \in Clients :
        ( /\ req[c].pc = "idle" /\ Steps(c) /\ CallerExists(c)
          /\ req'[c].op \in DOMAIN PermissionMatrix )
        => IF CallerRole(c) \in PermissionMatrix[req'[c].op]
           THEN ~(req'[c].pc = "done" /\ req'[c].status \in {401, 403})
           ELSE /\ req'[c].pc = "done" /\ req'[c].status = 403
                /\ auth_users' = auth_users
    ]_vars

(* A viewer has been refused a user mutation by the decorator. *)
C8_Witness ==
    \E c \in Clients :
        /\ req[c].op = "create_user" /\ req[c].pc = "done" /\ req[c].status = 403
        /\ req[c].error.roles = <<"admin", "owner">>
        /\ CallerExists(c) /\ CallerRole(c) = "viewer"

(* C9: a reset-password request of a caller whose account holds role admin  *)
(* is answered 403 when the target holds admin or owner, and writes a       *)
(* password only for a target that holds viewer.                            *)
C9_AdminResetsOnlyViewers ==
    [][\A c \in Clients :
        LET target == SelectByUsername(auth_users, req[c].args.username) IN
        /\ ( /\ At(c, "reset_password", "check") /\ Steps(c)
             /\ CallerExists(c) /\ CallerRole(c) = "admin"
             /\ \E i \in target : auth_users[i].role \in {"admin", "owner"} )
           => /\ req'[c].pc = "done" /\ req'[c].status = 403
              /\ auth_users' = auth_users
        /\ ( /\ At(c, "reset_password", "update") /\ Steps(c)
             /\ CallerExists(c) /\ CallerRole(c) = "admin" )
           => \A i \in DOMAIN auth_users :
                 auth_users'[i] # auth_users[i] => auth_users[i].role = "viewer"
    ]_vars

(* C10: a reset-password request of a caller whose account holds role owner, *)
(* naming an existing account, is let through by the handler's checks, the   *)
(* new password is stored for that account, and the answer is 200.           *)
C10_OwnerResetsAny ==
    [][\A c \in Clients :
        LET target == SelectByUsername(auth_users, req[c].args.username) IN
        /\ ( /\ At(c, "reset_password", "check") /\ Steps(c)
             /\ CallerExists(c) /\ CallerRole(c) = "owner" /\ target # {} )
           => req'[c].pc = "update"
        /\ ( /\ At(c, "reset_password", "update") /\ Steps(c)
             /\ CallerExists(c) /\ CallerRole(c) = "owner" /\ target # {} )
           => \A i \in target :
                 check_password_hash(auth_users'[i].password_hash, req'[c].args.new_password)
        /\ ( /\ At(c, "reset_password", "log") /\ Steps(c)
             /\ CallerExists(c) /\ CallerRole(c) = "owner" )
           => req'[c].pc = "done" /\ req'[c].status = 200
    ]_vars

(* C11: a change-password or reset-password request of a logged-in caller  *)
(* whose account holds role viewer is answered 403, whatever account it    *)
(* names, and changes no account.                                          *)
C11_ViewerPasswordForbidden ==
    [][\A c \in Clients :
        ( /\ req[c].pc = "idle" /\ Steps(c)
          /\ req'[c].op \in {"reset_password", "change_own_password"}
          /\ CallerExists(c) /\ CallerRole(c) = "viewer" )
        => /\ req'[c].pc = "done" /\ req'[c].status = 403
           /\ auth_users' = auth_users
    ]_vars

(* A viewer has been refused the reset of the owner's password. *)
C11_Witness ==
    \E c \in Clients :
        /\ req[c].op = "reset_password" /\ req[c].pc = "done" /\ req[c].status = 403
        /\ CallerExists(c) /\ CallerRole(c) = "viewer"
        /\ "username" \in DOMAIN req[c].args
        /\ \E i \in Owners(auth_users) : auth_users[i].username = req[c].args.username

(* What POST /login answers for this username and password on this table. *)
LoginPasses(table, username, password) ==
    login_checks(table, [username |-> username, password |-> password]) = Pass

(* C12: a change-password request whose current_password does not verify   *)
(* against the caller's stored hash is answered 401 and changes no account: *)
(* every password logs the caller in afterwards exactly if it did before.   *)
C12_WrongCurrentPassword ==
    [][\A c \in Clients :
        ( /\ At(c, "change_own_password", "check") /\ Steps(c) /\ CallerExists(c)
          /\ ~check_password_hash(
                 auth_users[IdOf(auth_users, session[c].username)].password_hash,
                 req[c].args.current_password) )
        => /\ req'[c].pc = "done" /\ req'[c].status = 401
           /\ auth_users' = auth_users
           /\ \A q \in Passwords :
                 LoginPasses(auth_users', session[c].username, q)
                     <=> LoginPasses(auth_users, session[c].username, q)
    ]_vars

(* A change-password request with a wrong current password has been answered *)
(* 401, and the caller's stored password is not the one it sent.             *)
C12_Witness ==
    \E c \in Clients :
        /\ Refused(c, "change_own_password", 401, "Current password is incorrect")
        /\ CallerExists(c)
        /\ ~LoginPasses(auth_users, session[c].username, req[c].args.current_password)
        /\ \E q \in Passwords : LoginPasses(auth_users, session[c].username, q)

(* The account whose password a reset-password or change-password request *)
(* of c sets.                                                              *)
PasswordTarget(c) ==
    IF req[c].op = "reset_password" THEN req[c].args.username ELSE session[c].username

(* C13: when a reset-password or change-password request has written the   *)
(* password p for account U, and when it is then answered 200, login(U, q) *)
(* passes for q = p and is refused for every other q.                      *)
C13_NewPasswordLogsIn ==
    [][\A c \in Clients :
        ( /\ req[c].op \in {"reset_password", "change_own_password"}
          /\ req[c].pc \in {"update", "log"} /\ Steps(c) )
        => /\ req[c].pc = "log" => (req'[c].pc = "done" /\ req'[c].status = 200)
           /\ \A q \in Passwords :
                 LoginPasses(auth_users', PasswordTarget(c), q)
                     <=> q = req'[c].args.new_password
           /\ \A q \in Passwords :
                 q # req'[c].args.new_password
                 => login_checks(auth_users', [username |-> PasswordTarget(c), password |-> q])
                        = Result(401, "Invalid username or password")
    ]_vars

(* A reset has been answered 200 for bob, who was created with "pw1": the *)
(* new password logs bob in, "pw1" no longer does.                        *)
C13_Witness ==
    \E c \in Clients :
        /\ req[c].op = "reset_password" /\ req[c].pc = "done" /\ req[c].status = 200
        /\ req[c].args.username = "bob" /\ req[c].args.new_password = "admin123"
        /\ LoginPasses(auth_users, "bob", "admin123")
        /\ ~LoginPasses(auth_users, "bob", "pw1")

(* The operations whose success is recorded, and the step of c that answers *)
(* one of them with success.                                                *)
AuditedOperations ==
    {"login", "logout", "create_admin", "delete_admin", "transfer_ownership",
     "reset_password", "change_own_password"}

Succeeds(c) ==
    /\ Steps(c) /\ req'[c].pc = "done" /\ req'[c].status \in {200, 201}
    /\ req'[c].op \in AuditedOperations
    /\ req'[c].op = "logout" => LoggedIn(c)

(* The caller of the request c is being answered for. *)
Caller(c) == IF req'[c].op = "login" THEN req'[c].args.username ELSE session[c].username

AppendsOneBy(username) ==
    /\ Len(audit_log') = Len(audit_log) + 1
    /\ SubSeq(audit_log', 1, Len(audit_log)) = audit_log
    /\ audit_log'[Len(audit_log')].performed_by = username

(* C14, as stated: every successful login, logout of a logged-in session,   *)
(* account creation, account deletion, ownership transfer, password reset   *)
(* and password change appends exactly one audit entry, whose performed_by  *)
(* is the caller's username; no other step of these requests appends one.   *)
C14_SuccessAppendsOne ==
    [][\A c \in AuditClients :
        /\ Succeeds(c) => AppendsOneBy(Caller(c))
        /\ (Steps(c) /\ ~Succeeds(c)) => audit_log' = audit_log
    ]_vars

(* C14, amended: the same while the INSERT of log_audit_event succeeds; when *)
(* it fails the request still succeeds and no entry is appended.             *)
C14_SuccessAppendsOneIfStoreUp ==
    [][\A c \in AuditClients :
        /\ (Succeeds(c) /\ audit_up) => AppendsOneBy(Caller(c))
        /\ (Succeeds(c) /\ ~audit_up) => audit_log' = audit_log
        /\ (Steps(c) /\ ~Succeeds(c)) => audit_log' = audit_log
    ]_vars

(* An ownership transfer by "admin" has been answered 200 and is the fourth *)
(* entry of the log, after the entries of a login and an account creation.  *)
C14_Witness ==
    \E c \in AuditClients :
        /\ req[c].op = "transfer_ownership" /\ req[c].pc = "done" /\ req[c].status = 200
        /\ audit_up /\ Len(audit_log) = 4
        /\ audit_log[4].action_type = "transfer_ownership"
        /\ audit_log[4].performed_by = "admin"
        /\ audit_log[2].action_type = "login"

(* C15: with the audit store working, every audit-log view answered 200   *)
(* appends exactly one audit entry, whose performed_by is the caller's     *)
(* username.                                                               *)
C15_ViewAppendsOne ==
    [][\A c \in AuditClients :
        ( /\ Steps(c) /\ req'[c].op = "get_audit_logs"
          /\ req'[c].pc = "done" /\ req'[c].status = 200 /\ audit_up )
        => AppendsOneBy(session[c].username)
    ]_vars

(* C16: an audit-log view answered 200 returns at most one page of entries, *)
(* most recent first: an entry appended after a returned entry is returned  *)
(* too, and before it (the row ids give the order of appending), also among *)
(* entries of the same second.                                              *)
C16_ViewMostRecentFirst ==
    [][\A c \in AuditClients :
        ( /\ Steps(c) /\ req'[c].op = "get_audit_logs"
          /\ req'[c].pc = "done" /\ req'[c].status = 200 )
        => LET logs == req'[c].args.logs
               returned == {logs[k].id : k \in 1..Len(logs)} IN
           /\ Len(logs) <= AuditLogLimit
           /\ \A k \in 1..Len(logs) : audit_log[logs[k].id].action_type = logs[k].action_type
           /\ \A b \in returned : \A a \in 1..Len(audit_log) : a > b => a \in returned
           /\ \A i, j \in 1..Len(logs) : i < j => logs[i].id > logs[j].id
    ]_vars

(* C17: the audit log is append-only: every step leaves the entries the log *)
(* holds as they are, in their place, and at most adds entries at its end.  *)
C17_AuditAppendOnly ==
    [][/\ Len(audit_log') >= Len(audit_log)
       /\ SubSeq(audit_log', 1, Len(audit_log)) = audit_log
    ]_vars

(* The log has grown to four entries and still starts with the bootstrap *)
(* entry.                                                                *)
C17_Witness ==
    /\ Len(audit_log) = 4
    /\ audit_log[1].action_type = "create_owner"
    /\ audit_log[4].action_type \in {"delete_admin", "reset_password", "logout"}

(* The status of a handler's success response. *)
SuccessStatus(op) == IF op = "create_admin" THEN 201 ELSE 200

(* The committed effect of the request c is about to be answered for, as the *)
(* table shows it.                                                           *)
EffectIn(table, c) ==
    LET args == req[c].args IN
    CASE req[c].op = "create_admin" ->
            /\ args.user_id \in DOMAIN table
            /\ table[args.user_id].username = args.username
            /\ table[args.user_id].role = args.role
      [] req[c].op = "delete_admin" -> args.admin_id \notin DOMAIN table
      [] req[c].op = "transfer_ownership" ->
            \A i \in DOMAIN table :
                table[i].role = "owner" <=> table[i].username = args.new_owner_username
      [] req[c].op \in {"reset_password", "change_own_password"} ->
            LoginPasses(table, PasswordTarget(c), args.new_password)
      [] OTHER -> TRUE

(* C18: the step of a handler that follows its commit and writes the audit *)
(* entry answers with the handler's success response and leaves the        *)
(* committed effect in place, the same whether the audit write succeeds or *)
(* fails; a failed write only leaves the log without the entry.            *)
C18_AuditFailureIsHarmless ==
    [][\A c \in AuditClients :
        (req[c].pc = "log" /\ Steps(c))
        => /\ req'[c] = Request(req[c].op, "done", req[c].args,
                                Result(SuccessStatus(req[c].op), ""))
           /\ auth_users' = auth_users
           /\ EffectIn(auth_users', c)
           /\ ~audit_up => audit_log' = audit_log
    ]_vars

(* With the audit store down an account creation has been answered 201: the *)
(* account is in the table and the log holds the bootstrap entry only.      *)
C18_Witness ==
    \E c \in AuditClients :
        /\ ~audit_up /\ Len(audit_log) = 1
        /\ req[c].op = "create_admin" /\ req[c].pc = "done" /\ req[c].status = 201
        /\ req[c].args.user_id \in DOMAIN auth_users
        /\ auth_users[req[c].args.user_id].username = req[c].args.username

(* C19: an account-creation request of the owner whose role value is not    *)
(* admin or viewer is answered 400 and creates no account, and every account *)
(* a step adds to the table has role admin or viewer.                        *)
C19_CreateOnlyAdminOrViewer ==
    [][/\ \A c \in Clients :
            ( /\ req[c].pc = "idle" /\ Steps(c) /\ req'[c].op = "create_admin"
              /\ CallerExists(c) /\ CallerRole(c) = "owner"
              /\ "role" \in DOMAIN req'[c].args
              /\ req'[c].args.role \notin {"admin", "viewer"} )
            => /\ req'[c].pc = "done" /\ req'[c].status = 400
               /\ auth_users' = auth_users
       /\ \A i \in DOMAIN auth_users' \ DOMAIN auth_users :
            auth_users'[i].role \in {"admin", "viewer"}
    ]_vars

(* The owner's request to create an account with role owner has been *)
(* answered 400.                                                     *)
C19_Witness ==
    \E c \in Clients :
        /\ Refused(c, "create_admin", 400, "Role must be 'admin' or 'viewer'")
        /\ req[c].args.role = "owner"
        /\ CallerExists(c) /\ CallerRole(c) = "owner"
        /\ SelectByUsername(auth_users, req[c].args.username) = {}

(* C20: a step of an admitted, well-formed account-creation request that   *)
(* finds its username in the table answers 409 and leaves the table as it  *)
(* is, at the handler's SELECT and, for the loser of two concurrent         *)
(* creations of one new username, at its INSERT.                            *)
C20_DuplicateIsConflict ==
    [][\A c \in Clients :
        ( /\ req[c].op = "create_admin" /\ req[c].pc \in {"check", "insert"}
          /\ Steps(c)
          /\ SelectByUsername(auth_users, req[c].args.username) # {} )
        => /\ req'[c].pc = "done" /\ req'[c].status = 409
           /\ auth_users' = auth_users
    ]_vars

(* The two ways a login with a username and a password fails. *)
NoSuchAccount(table, data) == SelectByUsername(table, data.username) = {}

WrongPassword(table, data) ==
    /\ SelectByUsername(table, data.username) # {}
    /\ ~check_password_hash(table[IdOf(table, data.username)].password_hash, data.password)

(* C21: a login that fails because the account does not exist and a login   *)
(* that fails because the password is wrong are answered alike, status 401  *)
(* and the same error, and both leave the client's session, held or not, as *)
(* it is.                                                                   *)
C21_FailedLoginUniform ==
    [][\A c \in Clients :
        ( /\ req[c].pc = "idle" /\ Steps(c) /\ req'[c].op = "login"
          /\ "username" \in DOMAIN req'[c].args
          /\ NoSuchAccount(auth_users, req'[c].args) \/ WrongPassword(auth_users, req'[c].args) )
        => /\ req'[c].pc = "done" /\ req'[c].status = 401
           /\ req'[c].error = Result(401, "Invalid username or password").error
           /\ \A other \in LoginBodies \ {NoBody} :
                 (NoSuchAccount(auth_users, other) \/ WrongPassword(auth_users, other))
                 => login_checks(auth_users, other).status = req'[c].status
                    /\ login_checks(auth_users, other).error = req'[c].error
           /\ session' = session
    ]_vars

(* A client that holds a session has been refused a login for a username *)
(* no account has, while another username fails on its password.         *)
C21_Witness ==
    \E c \in Clients :
        /\ Refused(c, "login", 401, "Invalid username or password")
        /\ NoSuchAccount(auth_users, req[c].args)
        /\ LoggedIn(c)
        /\ \E other \in LoginBodies \ {NoBody} : WrongPassword(auth_users, other)

(* The endpoints behind login_required. *)
ProtectedEndpoints == DOMAIN AllowedRoles \cup {"get_current_user"}

(* C22: every logout is answered 200 and leaves the client without a       *)
(* session, so that the decorators of every protected endpoint answer 401; *)
(* a logout of a client that holds no session (a second logout) is         *)
(* answered 200 as well and changes neither the tables nor any session.    *)
C22_LogoutIdempotent ==
    [][\A c \in Clients :
        (req[c].pc = "idle" /\ Steps(c) /\ req'[c].op = "logout")
        => /\ req'[c].pc = "done" /\ req'[c].status = 200
           /\ session'[c] = EmptySession
           /\ (login_required(c))' = Result(401, "Authentication required")
           /\ \A op \in DOMAIN AllowedRoles :
                 (role_required(c, AllowedRoles[op]))' = Result(401, "Authentication required")
           /\ ~LoggedIn(c) => UNCHANGED <<auth_users, nextId, db_txn, audit_log, audit_up, business_tables, session>>
    ]_vars

(* A logout has been answered 200 to a client without a session, with the *)
(* audit store up, and the log holds the entry of the client's earlier    *)
(* logout as its latest.                                                  *)
C22_Witness ==
    \E c \in Clients :
        /\ req[c].op = "logout" /\ req[c].pc = "done" /\ req[c].status = 200
        /\ ~LoggedIn(c)
        /\ audit_up
        /\ audit_log[Len(audit_log)].action_type = "logout"
        /\ Len(audit_log) < MaxAudit

C24_TransferEndsAllSessions ==
    [][\A c \in Clients :
        ( /\ At(c, "transfer_ownership", "log") /\ Steps(c)
          /\ req'[c].pc = "done" /\ req'[c].status = 200
          /\ session[c].username # req[c].args.new_owner_username )
        => \A d \in Clients :
              (LoggedIn(d) /\ session[d].username = session[c].username)
              => (login_required(d))' # Pass
    ]_vars

(* The set of the roles a route names. *)
RolesOf(roles_list) == {roles_list[i] : i \in DOMAIN roles_list}

(* C25: what a session is granted is decided by the role the session       *)
(* recorded at login: a request to a role-protected endpoint, sent with a   *)
(* session whose account exists, is refused by role_required exactly if the *)
(* session's role is not among the endpoint's roles, whatever role the      *)
(* account holds in auth_users by now.                                      *)
C25_SessionRoleDecides ==
    [][\A c \in Clients :
        ( /\ req[c].pc = "idle" /\ Steps(c)
          /\ req'[c].op \in DOMAIN AllowedRoles
          /\ CallerExists(c) )
        => ( (req'[c].pc = "done" /\ req'[c].status = 403
              /\ req'[c].error = AccessDenied(AllowedRoles[req'[c].op]).error)
             <=> session[c].role \notin RolesOf(AllowedRoles[req'[c].op]) )
    ]_vars

(* C26: a request to a role-protected endpoint from a caller whose account *)
(* holds a role the endpoint does not name is answered 403 with             *)
(* role_required's message, whatever body or target it carries (none, one   *)
(* with an invalid role, one that names no account), and changes nothing.   *)
C26_RoleCheckFirst ==
    [][\A c \in Clients :
        ( /\ req[c].pc = "idle" /\ Steps(c)
          /\ req'[c].op \in DOMAIN AllowedRoles
          /\ CallerExists(c)
          /\ CallerRole(c) \notin RolesOf(AllowedRoles[req'[c].op]) )
        => /\ req'[c].pc = "done" /\ req'[c].status = 403
           /\ req'[c].error = AccessDenied(AllowedRoles[req'[c].op]).error
           /\ UNCHANGED <<auth_users, nextId, db_txn, audit_log, audit_up, business_tables, session>>
    ]_vars

(* A viewer has sent the account-creation request without a body and has *)
(* been answered 403.                                                     *)
C26_Witness ==
    \E c \in Clients :
        /\ Refused(c, "create_admin", 403, "Access denied. Required roles: ")
        /\ req[c].args = NoBody
        /\ CallerExists(c) /\ CallerRole(c) = "viewer"

(* C27: once assign_license has answered 201 to a body with the id of a   *)
(* license type, the user's license list, as get_user_by_id and            *)
(* format_single_user give it, holds the new license with the name of that *)
(* license type and the URL of its icon.                                   *)
C27_AssignedLicenseShowsType ==
    \A c \in Clients :
        ( /\ req[c].op = "assign_license" /\ req[c].pc = "done" /\ req[c].status = 201
          /\ "license_type_id" \in DOMAIN req[c].args.body
          /\ req[c].args.body.license_type_id \in DOMAIN license_types )
        => LET found == get_user_by_id(req[c].args.body.user_id)
               license_type == license_types[req[c].args.body.license_type_id] IN
           \E user \in format_single_user(found.user, found.licenses) :
               \E license \in user.licenses :
                   /\ license.id = req[c].args.license_id
                   /\ license.license_type_name = Some(license_type.name)
                   /\ license.icon_url =
                          {get_icon_url(filename) : filename \in license_type.icon_filename}

(* C28: the DELETE of delete_admin never removes a row that holds role *)
(* owner when the DELETE is applied, whatever transfer runs beside it. *)
C28_DeleteNeverRemovesOwner ==
    [][\A c \in Clients :
        (At(c, "delete_admin", "delete") /\ Steps(c))
        => \A i \in DOMAIN auth_users \ DOMAIN auth_users' : auth_users[i].role # "owner"
    ]_vars

(* The steps that commit an owner-only mutation: the INSERT of create_admin, *)
(* the DELETE of delete_admin, the second UPDATE of transfer_ownership.      *)
CommitsOwnerMutation(c) ==
    /\ Steps(c)
    /\ \/ At(c, "create_admin", "insert")
       \/ At(c, "delete_admin", "delete")
       \/ At(c, "transfer_ownership", "promote")
    /\ auth_users' # auth_users

(* C29: when an owner-only mutation is committed, the account its caller's *)
(* session names holds role owner in the committed table at that moment,    *)
(* whatever transfer runs beside the request.                               *)
C29_CommitOnlyForOwner ==
    [][\A c \in Clients :
        CommitsOwnerMutation(c) => (CallerExists(c) /\ CallerRole(c) = "owner")
    ]_vars

(* The accounts that exist before and after a step and whose role the step *)
(* changes.                                                                *)
RoleChanged ==
    {i \in DOMAIN auth_users \cap DOMAIN auth_users' : auth_users'[i].role # auth_users[i].role}

(* C30: the role of an existing account changes only in the commit of an   *)
(* ownership transfer, which goes on to answer 200; every step of login,   *)
(* logout, account creation and deletion, reset-password, change-password  *)
(* and the users/licenses endpoints leaves every existing account's role   *)
(* as it is.                                                               *)
C30_RoleChangesOnlyByTransfer ==
    [][RoleChanged # {}
       => \E c \in Clients :
             /\ At(c, "transfer_ownership", "promote") /\ Steps(c)
             /\ req'[c].op = "transfer_ownership" /\ req'[c].pc = "log"
    ]_vars

(* A reset-password for the viewer bob has been answered 200, after an   *)
(* ownership transfer away from the first account: bob is still viewer.  *)
C30_Witness ==
    \E c \in Clients :
        /\ req[c].op = "reset_password" /\ req[c].pc = "done" /\ req[c].status = 200
        /\ req[c].args.username = "bob"
        /\ \E i \in DOMAIN auth_users :
              auth_users[i].username = "bob" /\ auth_users[i].role = "viewer"
        /\ auth_users[1].role = "admin"

(* The usernames of the accounts that hold role owner in the table. *)
OwnerNames(table) == {table[i].username : i \in Owners(table)}

(* C31: the audit entry of a successful ownership transfer names as old    *)
(* owner the account that held role owner immediately before the transfer  *)
(* was committed and as new owner the account that holds it immediately     *)
(* after, also when two transfer requests run concurrently.                 *)
C31_TransferEntryNamesOwners ==
    [][\A c \in Clients :
        (At(c, "transfer_ownership", "promote") /\ Steps(c)) =>
            /\ OwnerNames(auth_users) = {transfer_ownership_details(c).old_owner}
            /\ OwnerNames(auth_users') = {transfer_ownership_details(c).new_owner}
    ]_vars

(* C32: the 500 response of a handler that hit an internal failure carries *)
(* a fixed message that does not depend on the failure: two requests to    *)
(* the same endpoint that are both answered 500 carry the same error.      *)
C32_InternalErrorsAlike ==
    \A c, d \in Clients :
        ( /\ req[c].pc = "done" /\ req[d].pc = "done"
          /\ req[c].op = req[d].op
          /\ req[c].status = 500 /\ req[d].status = 500 )
        => req[c].error = req[d].error

(* The session of c was created by an account that is gone, and its        *)
(* username is now the username of another account.                        *)
SessionOfAnotherAccount(c) ==
    /\ CallerExists(c)
    /\ IdOf(auth_users, session[c].username) # session[c].user_id

(* C33: a session is honoured only for the account that authenticated it:  *)
(* after the account was deleted and a new account was created with the     *)
(* same username, a request to a role-protected endpoint that carries the    *)
(* old session is answered 401, and so is never granted the new account's    *)
(* role.                                                                     *)
C33_SessionOnlyForItsAccount ==
    [][\A c \in Clients :
        ( /\ req[c].pc = "idle" /\ Steps(c)
          /\ req'[c].op \in DOMAIN AllowedRoles
          /\ SessionOfAnotherAccount(c) )
        => (req'[c].pc = "done" /\ req'[c].status = 401)
    ]_vars

(* The account that created the session of c has been deleted: no account  *)
(* has the id the session recorded at login.                               *)
SessionOfDeletedAccount(c) == LoggedIn(c) /\ session[c].user_id \notin DOMAIN auth_users

(* C34: after an account has been deleted, every request that carries a    *)
(* session created by that account is answered 401 on every endpoint behind *)
(* login_required, GET /auth/me included.                                   *)
C34_DeletedAccountIsUnauthenticated ==
    [][\A c \in Clients :
        ( /\ req[c].pc = "idle" /\ Steps(c)
          /\ req'[c].op \in ProtectedEndpoints
          /\ SessionOfDeletedAccount(c) )
        => (req'[c].pc = "done" /\ req'[c].status = 401)
    ]_vars

(* The statuses of the responses that report an error of the request. *)
ErrorStatuses == {400, 401, 403, 404, 409}

(* The accounts, the records of users, licenses and license types, and the *)
(* audit entries.                                                          *)
Records == <<auth_users, users, license_types, licenses, audit_log>>

(* Where a request is after it has written: between the two UPDATEs of a   *)
(* transfer, and after a commit, before its audit entry.                   *)
AfterWrite == {"promote", "log"}

(* C35: a request answered with status 400, 401, 403, 404 or 409 changes    *)
(* nothing: no account, role or password hash, no user, license or          *)
(* license-type record and no audit entry is added or modified by it.  The  *)
(* step that answers with such a status writes nothing and is not taken by  *)
(* a request that has written, and every step that writes belongs to a      *)
(* request that is thereby past its checks or answered 200 or 201.          *)
C35_ErrorChangesNothing ==
    [][\A c \in Clients :
        Steps(c) =>
          /\ (req'[c].pc = "done" /\ req'[c].status \in ErrorStatuses)
                => (Records' = Records /\ db_txn' = db_txn /\ req[c].pc \notin AfterWrite)
          /\ (Records' # Records \/ db_txn' # db_txn)
                => \/ req'[c].pc \in AfterWrite
                   \/ req'[c].pc = "done" /\ req'[c].status \in {200, 201}
    ]_vars

(* With the audit store working and an account beside the owner's, the      *)
(* owner's request to delete the owner's own account has been answered 403.  *)
C35_Witness ==
    \E c \in Clients :
        /\ Refused(c, "delete_admin", 403, "Cannot delete the owner account")
        /\ audit_up /\ Len(audit_log) > 1
        /\ Cardinality(DOMAIN auth_users) > 1

(* C36: in every reachable state, under any interleaving of the requests   *)
(* to transfer ownership and to create and delete accounts, at most one    *)
(* account has role owner.                                                 *)
C36_AtMostOneOwner == Cardinality(Owners(auth_users)) <= 1

(* Two transfers to two different accounts, both admitted while the same   *)
(* account was owner, have both been committed.                            *)
C36_Witness ==
    \E c, d \in Clients :
        /\ At(c, "transfer_ownership", "log") /\ At(d, "transfer_ownership", "log")
        /\ req[c].args.new_owner_username # req[d].args.new_owner_username
        /\ Cardinality(Owners(auth_users)) = 1

(* C37: every license references an existing user in every reachable       *)
(* state: deleting a user removes the user's licenses with it, and no      *)
(* interleaving of assign-license with delete-user leaves a license whose  *)
(* user no longer exists.                                                  *)
C37_LicenseHasUser == \A l \in DOMAIN licenses : licenses[l].user_id \in DOMAIN users

(* What the decorators of the protected endpoints answer to each client. *)
DecoratorsAnswer ==
    [d \in Clients |->
        [op \in DOMAIN AllowedRoles |->
            IF login_required(d) # Pass THEN login_required(d)
            ELSE role_required(d, AllowedRoles[op])]]

====
